---- MODULE Spec2Model ----
(***************************************************************************)
(* Bulk import pipeline of the telegram-bot service: the /import handler   *)
(* (processZipFile), Importer.Import with its per-chat lock, the chunk     *)
(* loop, the per-record processing against the PostgreSQL store and the    *)
(* media store, and the live capture handlers that write to the same       *)
(* tables.                                                                 *)
(*                                                                         *)
(* Strings that the code parses (ids, dates) are sequences of one-letter   *)
(* strings, so that parsing is computed.  A Go pointer field is a sequence *)
(* of length 0 (nil) or 1 (the value pointed to).                          *)
(***************************************************************************)
EXTENDS Integers, Sequences, FiniteSets, Bags, TLC

(***************************************************************************)
(* Bounds                                                                  *)
(***************************************************************************)
\* handler invocations / Import calls that may run (concurrently) in Spec
MaxCalls == 2
\* records in a manifest explored with concurrent imports (Spec, SpecImporter)
MaxRecords == 1
\* records in a manifest explored with one import at a time (SpecSeq)
MaxRecordsSeq == 3
\* records of a SpecSeq manifest that are not the plain message record
MaxSpecial == 1
\* store, media and file operations that fail in one behaviour of SpecSeq
\* for a reason outside the archive
MaxFaults == 1
\* live capture updates handled while imports run
MaxLive == 1

\* goroutines calling Put on the media store at the same time
MaxPutters == 2
\* Put calls made in one behaviour of SpecPut
MaxPuts == 3
\* chunks beyond the capacity of the progress channel in the long manifests
\* of SpecCancel
MaxExtraChunks == 1

\* invocations of the cleanup function ExtractZIP returned, per caller
MaxReleases == 2

\* records in a manifest, and the largest IMPORT_CHUNK_SIZE, explored for
\* the chunking of Import (SpecChunks)
MaxTotal == 5
MaxChunkSize == 3

\* IMPORT_CHUNK_SIZE as configured for the explored runs
ImportChunkSize == 1
\* capacity of the progress channel the handler creates
ProgressChanCap == 10

Calls == 1..MaxCalls
Chats == {1, 2}

(***************************************************************************)
(* strconv.ParseInt(s, 10, 64) on letter sequences.                        *)
(***************************************************************************)
DigitVal ==
  ("0" :> 0) @@ ("1" :> 1) @@ ("2" :> 2) @@ ("3" :> 3) @@ ("4" :> 4) @@
  ("5" :> 5) @@ ("6" :> 6) @@ ("7" :> 7) @@ ("8" :> 8) @@ ("9" :> 9)

IsDigit(ch) == ch \in DOMAIN DigitVal

RECURSIVE DigitsValue(_)
DigitsValue(s) ==
  IF s = <<>> THEN 0
  ELSE 10 * DigitsValue(SubSeq(s, 1, Len(s) - 1)) + DigitVal[s[Len(s)]]

\* [ok, v]: ok = FALSE is the syntax error of ParseInt.  The range error
\* needs more than 18 digits and is outside the strings explored.
ParseInt(s) ==
  LET signed == Len(s) > 0 /\ s[1] \in {"+", "-"}
      body   == IF signed THEN Tail(s) ELSE s
  IN  IF body = <<>> \/ \E k \in 1..Len(body) : ~IsDigit(body[k])
      THEN [ok |-> FALSE, v |-> 0]
      ELSE [ok |-> TRUE,
            v  |-> IF signed /\ s[1] = "-" THEN 0 - DigitsValue(body)
                   ELSE DigitsValue(body)]

UserPrefix == <<"u", "s", "e", "r">>

HasPrefix(s, p) == Len(s) >= Len(p) /\ SubSeq(s, 1, Len(p)) = p

TrimPrefix(s, p) == IF HasPrefix(s, p) THEN SubSeq(s, Len(p) + 1, Len(s)) ELSE s

ParseUserID(fromID) ==
  IF fromID = <<>> THEN [ok |-> FALSE, v |-> 0]
  ELSE LET idStr == TrimPrefix(fromID, UserPrefix)
       IN  IF idStr = fromID THEN ParseInt(fromID) ELSE ParseInt(idStr)

(***************************************************************************)
(* time.Parse(time.RFC3339, s): YYYY-MM-DDTHH:MM:SS followed by Z or by    *)
(* +HH:MM / -HH:MM (fractional seconds are not among the strings explored).*)
(***************************************************************************)
AllDigits(s) == \A k \in 1..Len(s) : IsDigit(s[k])

Num(s, a, b) == DigitsValue(SubSeq(s, a, b))

IsLeap(y) == (y % 4 = 0 /\ y % 100 # 0) \/ y % 400 = 0

DaysIn(y, m) ==
  IF m = 2 THEN (IF IsLeap(y) THEN 29 ELSE 28)
  ELSE IF m \in {4, 6, 9, 11} THEN 30 ELSE 31

IsRFC3339(s) ==
  /\ Len(s) \in {20, 25}
  /\ AllDigits(SubSeq(s, 1, 4)) /\ s[5] = "-"
  /\ AllDigits(SubSeq(s, 6, 7)) /\ s[8] = "-"
  /\ AllDigits(SubSeq(s, 9, 10)) /\ s[11] = "T"
  /\ AllDigits(SubSeq(s, 12, 13)) /\ s[14] = ":"
  /\ AllDigits(SubSeq(s, 15, 16)) /\ s[17] = ":"
  /\ AllDigits(SubSeq(s, 18, 19))
  /\ Num(s, 6, 7) \in 1..12
  /\ Num(s, 9, 10) \in 1..DaysIn(Num(s, 1, 4), Num(s, 6, 7))
  /\ Num(s, 12, 13) < 24 /\ Num(s, 15, 16) < 60 /\ Num(s, 18, 19) < 60
  /\ IF Len(s) = 20 THEN s[20] = "Z"
     ELSE /\ s[20] \in {"+", "-"}
          /\ AllDigits(SubSeq(s, 21, 22)) /\ s[23] = ":"
          /\ AllDigits(SubSeq(s, 24, 25))
          /\ Num(s, 21, 22) < 24 /\ Num(s, 24, 25) < 60

\* days from 1970-01-01 to the civil date y-m-d
DaysFromCivil(y, m, d) ==
  LET yy  == IF m <= 2 THEN y - 1 ELSE y
      era == yy \div 400
      yoe == yy - era * 400
      mp  == IF m > 2 THEN m - 3 ELSE m + 9
      doy == (153 * mp + 2) \div 5 + d - 1
      doe == yoe * 365 + yoe \div 4 - yoe \div 100 + doy
  IN  era * 146097 + doe - 719468

\* t.UTC().Unix() of the time an RFC 3339 string denotes
UnixOfRFC3339(s) ==
  LET local  == DaysFromCivil(Num(s, 1, 4), Num(s, 6, 7), Num(s, 9, 10)) * 86400
                  + Num(s, 12, 13) * 3600 + Num(s, 15, 16) * 60 + Num(s, 18, 19)
      offset == IF Len(s) = 20 THEN 0
                ELSE (IF s[20] = "-" THEN 0 - 1 ELSE 1)
                       * (Num(s, 21, 22) * 3600 + Num(s, 24, 25) * 60)
  IN  local - offset

\* Variant: every record is given a date.
parseMessageDateAlways(exportMsg) == [ok |-> TRUE, src |-> "unixtime", t |-> 0]

\* parseMessageDate: [ok, src, t] where src tells which field gave the date
\* and t is the time returned, in seconds since the epoch
parseMessageDate(exportMsg) ==
  IF exportMsg.DateUnixtime # <<>> /\ ParseInt(exportMsg.DateUnixtime).ok
  THEN [ok |-> TRUE, src |-> "unixtime", t |-> ParseInt(exportMsg.DateUnixtime).v]
  ELSE IF exportMsg.Date # <<>>
       THEN (IF IsRFC3339(exportMsg.Date)
             THEN [ok |-> TRUE, src |-> "date", t |-> UnixOfRFC3339(exportMsg.Date)]
             ELSE [ok |-> FALSE, src |-> "date", t |-> 0])
       ELSE [ok |-> FALSE, src |-> "none", t |-> 0]

\* Variant: the media-kind hint is looked at before the photo field.
DetermineMediaTypeHintFirst(exportMsg) ==
  IF exportMsg.MediaType # <<>> /\ exportMsg.MediaType[1] = "video_file" THEN "video"
  ELSE IF exportMsg.MediaType # <<>> /\ exportMsg.MediaType[1] = "voice_message" THEN "voice"
  ELSE IF exportMsg.MediaType # <<>> /\ exportMsg.MediaType[1] = "animation" THEN "animation"
  ELSE IF exportMsg.MediaType # <<>> /\ exportMsg.MediaType[1] = "sticker" THEN "sticker"
  ELSE IF exportMsg.MediaType # <<>> /\ exportMsg.MediaType[1] = "video_message" THEN "video_note"
  ELSE IF exportMsg.Photo # <<>> THEN "photo"
  ELSE IF exportMsg.File # <<>> THEN "document"
  ELSE "text"

\* DetermineMediaType: Photo != nil, then the switch on *MediaType, then
\* File != nil, else "text"
DetermineMediaType(exportMsg) ==
  IF exportMsg.Photo # <<>> THEN "photo"
  ELSE IF exportMsg.MediaType # <<>> /\ exportMsg.MediaType[1] = "video_file" THEN "video"
  ELSE IF exportMsg.MediaType # <<>> /\ exportMsg.MediaType[1] = "voice_message" THEN "voice"
  ELSE IF exportMsg.MediaType # <<>> /\ exportMsg.MediaType[1] = "animation" THEN "animation"
  ELSE IF exportMsg.MediaType # <<>> /\ exportMsg.MediaType[1] = "sticker" THEN "sticker"
  ELSE IF exportMsg.MediaType # <<>> /\ exportMsg.MediaType[1] = "video_message" THEN "video_note"
  ELSE IF exportMsg.File # <<>> THEN "document"
  ELSE "text"

\* actionMap of MapServiceAction
actionMap ==
  ("invite_members" :> "user_joined") @@ ("remove_members" :> "user_left") @@
  ("join_group_by_link" :> "user_joined") @@
  ("migrate_to_supergroup" :> "chat_migrated") @@
  ("pin_message" :> "message_pinned") @@ ("edit_group_title" :> "title_changed") @@
  ("edit_group_photo" :> "photo_changed")

\* Variant: a keyword outside the table is mapped to the empty action.
MapServiceActionClosed(exportAction) ==
  IF exportAction \in DOMAIN actionMap THEN actionMap[exportAction] ELSE ""

\* MapServiceAction: the table value, or the keyword itself
MapServiceAction(exportAction) ==
  IF exportAction \in DOMAIN actionMap THEN actionMap[exportAction]
  ELSE exportAction

\* GetMediaPath: the photo path wins over the file path; "" when neither
GetMediaPath(exportMsg) ==
  IF exportMsg.Photo # <<>> THEN exportMsg.Photo[1]
  ELSE IF exportMsg.File # <<>> THEN exportMsg.File[1]
  ELSE ""

(***************************************************************************)
(* The archive: result.json records (ExportMessage) and the media files    *)
(* of the extracted tree.                                                  *)
(***************************************************************************)
U7 == <<"u", "s", "e", "r", "7">>
U8 == <<"u", "s", "e", "r", "8">>
Channel9 == <<"c", "h", "a", "n", "n", "e", "l", "9">>
Epoch == <<"1", "7", "0", "5">>
NotANumber == <<"1", "7", "x">>
\* the export's own date format: no zone, so not RFC 3339
IsoLocal == <<"2", "0", "2", "4", "-", "0", "1", "-", "1", "5", "T",
              "1", "0", ":", "3", "0", ":", "0", "0">>
IsoZ == IsoLocal \o <<"Z">>

\* path -> content of the media files present in the extracted directory
Files == ("photos/p1.jpg" :> "bytesA") @@ ("files/f1.bin" :> "bytesA")

BaseMessage ==
  [ID |-> 0, Type |-> "message", Date |-> IsoLocal, DateUnixtime |-> Epoch,
   From |-> <<"Bob">>, FromID |-> U8, ForwardedFromID |-> <<>>,
   Photo |-> <<>>, File |-> <<>>, MimeType |-> <<>>,
   Actor |-> <<>>, ActorID |-> <<>>]

BaseService ==
  [BaseMessage EXCEPT !.Type = "service", !.From = <<>>, !.FromID = <<>>,
                      !.Actor = <<"Ann">>, !.ActorID = <<U7>>]

RecordOfKind(kind) ==
  CASE kind = "msg"          -> BaseMessage
    [] kind = "msg_iso"      -> [BaseMessage EXCEPT !.DateUnixtime = <<>>, !.Date = IsoZ]
    [] kind = "msg_baddate"  -> [BaseMessage EXCEPT !.DateUnixtime = NotANumber]
    [] kind = "msg_nodate"   -> [BaseMessage EXCEPT !.DateUnixtime = <<>>, !.Date = <<>>]
    [] kind = "msg_channel"  -> [BaseMessage EXCEPT !.FromID = Channel9]
    [] kind = "msg_photo"    -> [BaseMessage EXCEPT !.Photo = <<"photos/p1.jpg">>,
                                                    !.MimeType = <<"image/jpeg">>]
    [] kind = "msg_file"     -> [BaseMessage EXCEPT !.File = <<"files/f1.bin">>]
    [] kind = "msg_nofile"   -> [BaseMessage EXCEPT !.File = <<"files/gone.bin">>]
    [] kind = "msg_fwd"      -> [BaseMessage EXCEPT !.FromID = U7, !.ForwardedFromID = <<U8>>]
    [] kind = "svc"          -> BaseService
    [] kind = "svc_noname"   -> [BaseService EXCEPT !.Actor = <<>>]
    [] kind = "svc_noid"     -> [BaseService EXCEPT !.Actor = <<>>, !.ActorID = <<>>]
    [] kind = "svc_baddate"  -> [BaseService EXCEPT !.DateUnixtime = <<>>]

RecordKinds ==
  {"msg", "msg_iso", "msg_baddate", "msg_nodate", "msg_channel", "msg_photo",
   "msg_file", "msg_nofile", "msg_fwd", "svc", "svc_noname", "svc_noid",
   "svc_baddate"}

\* record kinds explored under concurrent imports
RecordKindsConcurrent == {"msg", "svc"}

\* a manifest: records numbered 1..n in order, as the export numbers them
ManifestOf(kinds) ==
  [k \in 1..Len(kinds) |-> [RecordOfKind(kinds[k]) EXCEPT !.ID = k]]

SeqsUpTo(S, n) == UNION {[1..m -> S] : m \in 0..n}

Manifests(kindSet, n) == {ManifestOf(ks) : ks \in SeqsUpTo(kindSet, n)}

\* manifests of plain messages with at most MaxSpecial records of other kinds
ManifestsSeq ==
  {ManifestOf(ks) : ks \in
     {q \in SeqsUpTo(RecordKinds, MaxRecordsSeq) :
        Cardinality({k \in 1..Len(q) : q[k] # "msg"}) <= MaxSpecial}}

(***************************************************************************)
(* State                                                                   *)
(***************************************************************************)
VARIABLES
  manifest,          \* exportData.Messages of the archive being imported
  pc,                \* per call: where the handler / Import stands
  chatID,            \* per call: chatID passed to Import
  importer,          \* per call: the Importer instance it calls Import on
  activeLocks,       \* per Importer instance: chat ids in its sync.Map
  workDir,           \* per call: the extracted directory exists
  chunkIdx,          \* per call: chunkIdx of the chunk loop
  msgIdx,            \* per call: i of the record loop (1-based)
  progress,          \* per call: ImportProgress
  tx,                \* per call: "none" or "open" (the chunk's sql.Tx)
  progressChan,      \* per call: the snapshots sent on the progress channel
  ctxDone,           \* per call: the ctx given to Import is cancelled
  ret,               \* per call: what Import returned
  chats,             \* table chats: ids
  users,             \* table users: ids
  messages,          \* table messages: bag of rows
  service_messages,  \* table service_messages: bag of rows
  objects,           \* media store: keys of the objects held
  live,              \* live capture updates handled so far
  faultsLeft,        \* operations that may still fail for outside reasons
  hist,              \* per call: observations for the properties (not program state)
  put,               \* the Put calls on the media store and its contents
  chunkSize,         \* im.chunkSize: config.ImportChunkSize given to NewImporter
  reporter,          \* per call: the updateImportProgress goroutine
  extraction,        \* per call: what ExtractZIP returned and the uses of cleanup
  calc,              \* a call of a normalisation helper: its argument and result
  uploads,           \* messages whose media was uploaded (not program state)
  batch              \* the /import command in progress: files found and counted

vars ==
  <<manifest, pc, chatID, importer, activeLocks, workDir, chunkIdx, msgIdx,
    progress, tx, progressChan, ctxDone, ret, chats, users, messages,
    service_messages, objects, live, faultsLeft, hist, put, chunkSize, reporter,
    extraction, calc, uploads, batch>>

NoImporter == 0
\* the Importer instance NewImporter returns in handler call c
NewImporter(c) == c
\* one Importer instance given to every caller (SpecImporter)
SharedImporter == MaxCalls + 1
Importers == 1..SharedImporter

ZeroProgress ==
  [Total |-> 0, Processed |-> 0, Inserted |-> 0, Skipped |-> 0,
   ErrorCount |-> 0, MediaUploaded |-> 0, CurrentChunk |-> 0, TotalChunks |-> 0]

\* hist[c]: lastFail = what failed in the record processed last;
\* chunkFail = <<chunk, "begin" | "commit">> of the chunks whose transaction
\* failed; touched = the resources the Import call has used so far;
\* added = the message and service-event rows the call has added to the store;
\* media = the records whose media the call uploaded: record id, content key,
\* and whether the record's row was inserted
ZeroHist ==
  [lastFail |-> {}, chunkFail |-> {}, touched |-> {}, added |-> 0, media |-> {}]

\* goroutines that call Put on the media store
Putters == 1..MaxPutters

\* a Put call: pc is "idle", "probe" (key derived, existence not yet probed),
\* "upload" (probed absent) or "done"; key and err are what it returned;
\* wrote tells whether it uploaded
IdleCall ==
  [pc |-> "idle", bytes |-> "", contentType |-> "", key |-> <<>>, err |-> FALSE,
   wrote |-> FALSE]

\* content: the bytes held under each key; writes: the uploads made per key;
\* started: the Put calls made; raced: some call started while another ran
ZeroPut ==
  [call |-> [p \in Putters |-> IdleCall], content |-> <<>>, writes |-> <<>>,
   started |-> 0, raced |-> FALSE]

\* the updateImportProgress goroutine of a handler call: pc is "none" (not
\* started), "loop" or "returned"; received counts the snapshots it took
\* from the progress channel
\* no /import command has scanned the import directory
NoBatch ==
  [state |-> "none", files |-> 0, idx |-> 0, successCount |-> 0,
   failedCount |-> 0, deleted |-> {}]

NoReporter ==
  [pc |-> "none", received |-> 0, needsUpdate |-> FALSE,
   lastProgress |-> ZeroProgress, final |-> <<>>, how |-> ""]

\* what ExtractZIP returned to a caller (err "none" is the nil error,
\* cleanup "nil" the nil func), how often the caller invoked the returned
\* cleanup, and whether such an invocation panicked
NotExtracted ==
  [called |-> FALSE, extractedDir |-> "", cleanup |-> "nil", err |-> "none",
   released |-> 0, panicked |-> FALSE]

NoCalc == [fn |-> "none", arg |-> <<>>, done |-> FALSE, result |-> <<>>]

InitCommon ==
  /\ chunkIdx = [c \in Calls |-> 0]
  /\ msgIdx = [c \in Calls |-> 0]
  /\ progress = [c \in Calls |-> ZeroProgress]
  /\ tx = [c \in Calls |-> "none"]
  /\ progressChan = [c \in Calls |-> <<>>]
  /\ ctxDone = [c \in Calls |-> FALSE]
  /\ ret = [c \in Calls |-> "none"]
  /\ activeLocks = [i \in Importers |-> {}]
  /\ chats = {}
  /\ users = {}
  /\ messages = EmptyBag
  /\ service_messages = EmptyBag
  /\ objects = {}
  /\ live = 0
  /\ hist = [c \in Calls |-> ZeroHist]
  /\ put = ZeroPut
  /\ reporter = [c \in Calls |-> NoReporter]
  /\ extraction = [c \in Calls |-> NotExtracted]
  /\ calc = NoCalc
  /\ uploads = {}
  /\ batch = NoBatch

\* the bot is running, no /import has been issued yet
Init ==
  /\ InitCommon
  /\ chunkSize = ImportChunkSize
  /\ manifest \in Manifests(RecordKindsConcurrent, MaxRecords)
  /\ faultsLeft = 0
  /\ pc = [c \in Calls |-> "idle"]
  /\ chatID = [c \in Calls |-> 0]
  /\ importer = [c \in Calls |-> NoImporter]
  /\ workDir = [c \in Calls |-> FALSE]

(***************************************************************************)
(* PostgresStore                                                           *)
(***************************************************************************)
HasKey(table, chat, tid) ==
  \E r \in BagToSet(table) : r.chat_id = chat /\ r.telegram_message_id = tid

\* Variant: the existence check never finds the row.
MessageExistsNever(chat, tid) == FALSE

\* SELECT EXISTS(... WHERE chat_id = $1 AND telegram_message_id = $2)
MessageExists(chat, tid) == HasKey(messages, chat, tid)

ServiceMessageExists(chat, tid) == HasKey(service_messages, chat, tid)

\* REFERENCES chats(id) / users(id) of table messages
MessageForeignKeysHold(row, chatRows, userRows) ==
  /\ row.chat_id \in chatRows
  /\ \A k \in 1..Len(row.user_id) : row.user_id[k] \in userRows
  /\ \A k \in 1..Len(row.forwarded_from_user_id) :
        row.forwarded_from_user_id[k] \in userRows

\* Variant: the tables have no unique constraint.
NoUniqueConstraint(table, row) == FALSE

\* UNIQUE(chat_id, telegram_message_id)
UniqueViolation(table, row) == HasKey(table, row.chat_id, row.telegram_message_id)

\* Variant: a statement that fails for a reason outside the data has added
\* its row all the same.
InsertMessageThenFail(row, chatRows, userRows, fail) ==
  IF UniqueViolation(messages, row)
        \/ ~MessageForeignKeysHold(row, chatRows, userRows)
  THEN [err |-> TRUE, rows |-> messages]
  ELSE [err |-> fail, rows |-> messages (+) SetToBag({row})]

\* InsertMessage: a plain INSERT; [err, rows] is the error flag and the table
\* afterwards.  fail = the statement fails for a reason outside the data.
InsertMessage(row, chatRows, userRows, fail) ==
  IF fail \/ UniqueViolation(messages, row)
          \/ ~MessageForeignKeysHold(row, chatRows, userRows)
  THEN [err |-> TRUE, rows |-> messages]
  ELSE [err |-> FALSE, rows |-> messages (+) SetToBag({row})]

ServiceForeignKeysHold(row, chatRows, userRows) ==
  /\ row.chat_id \in chatRows
  /\ \A k \in 1..Len(row.actor_user_id) : row.actor_user_id[k] \in userRows

\* InsertServiceMessage: INSERT ... ON CONFLICT (chat_id, telegram_message_id)
\* DO NOTHING: a conflicting row is dropped without an error
InsertServiceMessage(row, chatRows, userRows, fail) ==
  IF fail THEN [err |-> TRUE, rows |-> service_messages]
  ELSE IF UniqueViolation(service_messages, row)
       THEN [err |-> FALSE, rows |-> service_messages]
       ELSE IF ~ServiceForeignKeysHold(row, chatRows, userRows)
            THEN [err |-> TRUE, rows |-> service_messages]
            ELSE [err |-> FALSE, rows |-> service_messages (+) SetToBag({row})]

(***************************************************************************)
(* Media store (storage.MinIOClient)                                       *)
(***************************************************************************)
\* the SHA-256 key of a payload: equal bytes, equal key; different bytes,
\* different keys
Hash(bytes) == <<"sha256", bytes>>

\* UploadFile: key derived from the bytes; uploaded only if absent
UploadFile(bytes, contentType, fail) ==
  IF fail THEN [err |-> TRUE, key |-> "", objs |-> objects]
  ELSE [err |-> FALSE, key |-> Hash(bytes), objs |-> objects \cup {Hash(bytes)}]

\* Variant: the key depends on the declared content type as well.
PutKeyWithType(bytes, contentType) == <<"sha256", bytes, contentType>>

\* the key Put derives: the content hash of the exact input bytes
PutKey(bytes, contentType) == Hash(bytes)

\* Exists(key)
Exists(key) == key \in objects

\* Variant: an upload to a key that is held appends to the object.
StoredAppending(content, key, bytes) ==
  IF key \in DOMAIN content
  THEN [content EXCEPT ![key] = <<@, bytes>>]
  ELSE (key :> bytes) @@ content

\* the contents after an upload of bytes under key: the object is replaced
Stored(content, key, bytes) ==
  [k \in DOMAIN content \cup {key} |-> IF k = key THEN bytes ELSE content[k]]

Payloads == {"bytesA", "bytesB"}
ContentTypes == {"image/jpeg", "video/mp4"}

PutRunning(p) == put.call[p].pc \in {"probe", "upload"}

\* Put(bytes, declaredContentType), first step: derive the key
PutStart(p, bytes, contentType) ==
  /\ put.call[p].pc \in {"idle", "done"}
  /\ put.started < MaxPuts
  /\ put' = [put EXCEPT
       !.call[p] = [IdleCall EXCEPT !.pc = "probe", !.bytes = bytes,
                                    !.contentType = contentType,
                                    !.key = PutKey(bytes, contentType)],
       !.started = @ + 1,
       !.raced = @ \/ \E q \in Putters \ {p} : PutRunning(q)]
  /\ UNCHANGED <<chunkSize, reporter, extraction, calc, uploads, batch,
                 manifest, pc, chatID, importer, workDir, activeLocks,
                 chunkIdx, msgIdx, progress, tx, progressChan, ctxDone, ret,
                 chats, users, messages, service_messages, objects, live,
                 faultsLeft, hist>>

\* Put, second step: probe the key; a key that is held is returned at once
PutProbe(p) ==
  /\ put.call[p].pc = "probe"
  /\ put' = [put EXCEPT
       !.call[p].pc = IF Exists(put.call[p].key) THEN "done" ELSE "upload"]
  /\ UNCHANGED <<chunkSize, reporter, extraction, calc, uploads, batch,
                 manifest, pc, chatID, importer, workDir, activeLocks,
                 chunkIdx, msgIdx, progress, tx, progressChan, ctxDone, ret,
                 chats, users, messages, service_messages, objects, live,
                 faultsLeft, hist>>

\* Put, third step: upload the payload under the key, or fail with
\* StoreUnavailable when the write fails
PutUpload(p) ==
  /\ put.call[p].pc = "upload"
  /\ LET key == put.call[p].key IN
     \E fail \in BOOLEAN :
       IF fail
       THEN /\ put' = [put EXCEPT !.call[p].pc = "done", !.call[p].err = TRUE]
            /\ UNCHANGED objects
       ELSE /\ put' = [put EXCEPT
                 !.call[p].pc = "done", !.call[p].wrote = TRUE,
                 !.content = Stored(@, key, put.call[p].bytes),
                 !.writes = (key :> (IF key \in DOMAIN @ THEN @[key] + 1 ELSE 1)) @@ @]
            /\ objects' = objects \cup {key}
  /\ UNCHANGED <<chunkSize, reporter, extraction, calc, uploads, batch,
                 manifest, pc, chatID, importer, workDir, activeLocks,
                 chunkIdx, msgIdx, progress, tx, progressChan, ctxDone, ret,
                 chats, users, messages, service_messages, live, faultsLeft,
                 hist>>

(***************************************************************************)
(* Per-record processing.  F is the set of operations that fail in this    *)
(* record for a reason outside the archive; used reports which of them the *)
(* record got to.  The store is used through im.store (the connection      *)
(* pool), never through the chunk's tx, so every statement commits on its  *)
(* own.                                                                    *)
(***************************************************************************)
FaultOps == {"chat", "user", "read", "put", "insert"}

\* Variant: the errors of the read and of the upload are dropped and the
\* empty hash is returned as if the media were stored.
ProcessMediaNoError(relativePath, mimeType, F) ==
  IF relativePath \notin DOMAIN Files \/ F \cap {"read", "put"} # {}
  THEN [err |-> FALSE, hash |-> "", objs |-> objects,
        fails |-> {"mediaread"}, used |-> F \cap {"read"}]
  ELSE [err |-> FALSE, hash |-> Hash(Files[relativePath]),
        objs |-> objects \cup {Hash(Files[relativePath])},
        fails |-> {}, used |-> {}]

\* Variant: the hash of the bytes read is returned without the upload.
ProcessMediaNotStored(relativePath, mimeType, F) ==
  IF relativePath \notin DOMAIN Files \/ "read" \in F
  THEN [err |-> TRUE, hash |-> "", objs |-> objects,
        fails |-> {"mediaread"}, used |-> F \cap {"read"}]
  ELSE [err |-> FALSE, hash |-> Hash(Files[relativePath]), objs |-> objects,
        fails |-> {}, used |-> {}]

\* ProcessMedia: read the file below the extracted directory, then UploadFile
ProcessMedia(relativePath, mimeType, F) ==
  IF relativePath \notin DOMAIN Files
  THEN [err |-> TRUE, hash |-> "", objs |-> objects,
        fails |-> {"mediaread"}, used |-> {}]
  ELSE IF "read" \in F
  THEN [err |-> TRUE, hash |-> "", objs |-> objects,
        fails |-> {"mediaread"}, used |-> {"read"}]
  ELSE LET up == UploadFile(Files[relativePath], mimeType, "put" \in F)
       IN  [err |-> up.err, hash |-> up.key, objs |-> up.objs,
            fails |-> IF up.err THEN {"put"} ELSE {},
            used |-> IF up.err THEN {"put"} ELSE {}]

\* what processing one record did: the error returned, the tables and the
\* media store afterwards, the counter increments, and what failed
Outcome(err, panic, chatRows, userRows, objs, msgRows, svcRows, ins, media, fails, used) ==
  [err |-> err, panic |-> panic, chats |-> chatRows, users |-> userRows,
   objects |-> objs, messages |-> msgRows, service_messages |-> svcRows,
   inserted |-> ins, media |-> media, fails |-> fails, used |-> used]

\* processRegularMessage after the existence check found no row
processRegularMessage(exportMsg, chat, F) ==
  IF "chat" \in F
  THEN Outcome(TRUE, FALSE, chats, users, objects, messages, service_messages,
               0, 0, {"chat"}, {"chat"})
  ELSE
  LET chats1   == chats \cup {chat}
      uid      == ParseUserID(exportMsg.FromID)
      hasUser  == exportMsg.FromID # <<>> /\ uid.ok
      userErr  == hasUser /\ "user" \in F
      users1   == IF hasUser /\ ~userErr THEN users \cup {uid.v} ELSE users
      userID   == IF hasUser THEN <<uid.v>> ELSE <<>>
      idFails  == (IF exportMsg.FromID # <<>> /\ ~uid.ok THEN {"idparse"} ELSE {})
                  \cup (IF userErr THEN {"user"} ELSE {})
      idUsed   == IF userErr THEN {"user"} ELSE {}
      date     == parseMessageDate(exportMsg)
  IN
  IF ~date.ok
  THEN Outcome(TRUE, FALSE, chats1, users1, objects, messages, service_messages,
               0, 0, idFails \cup {"date"}, idUsed)
  ELSE
  LET mediaPath == GetMediaPath(exportMsg)
      mimeType  == IF exportMsg.MimeType = <<>> THEN "" ELSE exportMsg.MimeType[1]
      med       == IF mediaPath # "" THEN ProcessMedia(mediaPath, mimeType, F)
                   ELSE [err |-> TRUE, hash |-> "", objs |-> objects,
                         fails |-> {}, used |-> {}]
      sha       == IF mediaPath # "" /\ ~med.err THEN <<med.hash>> ELSE <<>>
      uploaded  == IF mediaPath # "" /\ ~med.err THEN 1 ELSE 0
      fwd       == IF exportMsg.ForwardedFromID = <<>> THEN [ok |-> FALSE, v |-> 0]
                   ELSE ParseUserID(exportMsg.ForwardedFromID[1])
      row       == [chat_id |-> chat, telegram_message_id |-> exportMsg.ID,
                    user_id |-> userID,
                    forwarded_from_user_id |-> IF fwd.ok THEN <<fwd.v>> ELSE <<>>,
                    media_sha256 |-> sha]
      ins       == InsertMessage(row, chats1, users1, "insert" \in F)
      fails     == idFails \cup med.fails \cup (IF ins.err THEN {"insert"} ELSE {})
      used      == idUsed \cup med.used \cup (F \cap {"insert"})
  IN  Outcome(ins.err, FALSE, chats1, users1, med.objs, ins.rows, service_messages,
              IF ins.err THEN 0 ELSE 1, uploaded, fails, used)

\* processServiceMessage after the existence check found no row
processServiceMessage(exportMsg, chat, F) ==
  IF "chat" \in F
  THEN Outcome(TRUE, FALSE, chats, users, objects, messages, service_messages,
               0, 0, {"chat"}, {"chat"})
  ELSE
  LET chats1   == chats \cup {chat}
      uid      == IF exportMsg.ActorID = <<>> THEN [ok |-> FALSE, v |-> 0]
                  ELSE ParseUserID(exportMsg.ActorID[1])
      hasActor == exportMsg.ActorID # <<>> /\ uid.ok
  IN
  \* FirstName: *exportMsg.Actor with Actor nil is a nil pointer dereference
  IF hasActor /\ exportMsg.Actor = <<>>
  THEN Outcome(TRUE, TRUE, chats1, users, objects, messages, service_messages,
               0, 0, {"nilactor"}, {})
  ELSE
  LET userErr  == hasActor /\ "user" \in F
      users1   == IF hasActor /\ ~userErr THEN users \cup {uid.v} ELSE users
      idFails  == (IF exportMsg.ActorID # <<>> /\ ~uid.ok THEN {"idparse"} ELSE {})
                  \cup (IF userErr THEN {"user"} ELSE {})
      idUsed   == IF userErr THEN {"user"} ELSE {}
      date     == parseMessageDate(exportMsg)
  IN
  IF ~date.ok
  THEN Outcome(TRUE, FALSE, chats1, users1, objects, messages, service_messages,
               0, 0, idFails \cup {"date"}, idUsed)
  ELSE
  LET row == [chat_id |-> chat, telegram_message_id |-> exportMsg.ID,
              actor_user_id |-> IF hasActor THEN <<uid.v>> ELSE <<>>]
      ins == InsertServiceMessage(row, chats1, users1, "insert" \in F)
  IN  Outcome(ins.err, FALSE, chats1, users1, objects, messages, ins.rows,
              IF ins.err THEN 0 ELSE 1, 0,
              idFails \cup (IF ins.err THEN {"insert"} ELSE {}),
              idUsed \cup (F \cap {"insert"}))

\* processMessage: dispatch on the record's type
processMessage(exportMsg, chat, F) ==
  IF exportMsg.Type = "service" THEN processServiceMessage(exportMsg, chat, F)
  ELSE processRegularMessage(exportMsg, chat, F)

(***************************************************************************)
(* The /import handler and Importer.Import                                 *)
(***************************************************************************)
storeVars == <<chats, users, messages, service_messages>>
loopVars == <<chunkIdx, msgIdx>>
callVars == <<chatID, importer, workDir>>

Min(a, b) == IF a < b THEN a ELSE b

\* a / b of int operands: the quotient truncated toward zero (b # 0)
Quo(a, b) ==
  LET abs(x) == IF x < 0 THEN 0 - x ELSE x
      q      == abs(a) \div abs(b)
  IN  IF (a < 0) = (b < 0) THEN q ELSE 0 - q

\* Variant: the chunk count rounded down.
TotalChunksRoundedDown(totalMessages, size) == totalMessages \div size

\* totalChunks := (totalMessages + im.chunkSize - 1) / im.chunkSize
TotalChunksOf(totalMessages, size) == Quo(totalMessages + size - 1, size)

\* start and end of chunk chunkIdx as 1-based positions first..last
ChunkFirst(idx) == idx * chunkSize + 1
ChunkLast(idx, total) == Min(idx * chunkSize + chunkSize, total)

HoldsLock(c) == importer[c] # NoImporter /\ chatID[c] \in activeLocks[importer[c]]

\* sync.Map.LoadOrStore(key, true) on the key set m: loaded tells whether the
\* key was present, m is the map afterwards.
\* Variant: a map that never reports the key as present.
LoadOrStoreNeverLoaded(m, key) == [loaded |-> FALSE, m |-> m \cup {key}]

\* Variant: one lock for the whole Importer, whatever the key.
LoadOrStoreAnyKey(m, key) == [loaded |-> m # {}, m |-> m \cup {key}]

LoadOrStore(m, key) == [loaded |-> key \in m, m |-> m \cup {key}]

\* Variant: the deferred Delete is missing.
ReleasedNever(c) == activeLocks

\* defer im.activeLocks.Delete(chatID)
Released(c) == [activeLocks EXCEPT ![importer[c]] = @ \ {chatID[c]}]

\* how a call of ExtractZIP goes: "ok", or what fails: os.MkdirTemp,
\* zip.OpenReader, extractFile of an entry, or result.json is not found
ExtractOutcomes == {"ok", "mkdir", "open", "entry", "nomanifest"}

\* cleanup = func() { os.RemoveAll(extractedDir) }: whether the directory
\* exists after the call, given whether it existed before
RemoveAll(exists) == FALSE

\* Variant: the check for result.json returns its error without cleanup().
ExtractZIPLeavingDir(outcome) ==
  IF outcome = "mkdir"
  THEN [extractedDir |-> "", cleanup |-> "nil", err |-> outcome, exists |-> FALSE]
  ELSE IF outcome \in {"open", "entry"}
  THEN [extractedDir |-> "", cleanup |-> "nil", err |-> outcome,
        exists |-> RemoveAll(TRUE)]
  ELSE IF outcome = "nomanifest"
  THEN [extractedDir |-> "", cleanup |-> "nil", err |-> outcome, exists |-> TRUE]
  ELSE [extractedDir |-> "tmp", cleanup |-> "func", err |-> "none", exists |-> TRUE]

\* ExtractZIP: what it returns (extractedDir, cleanup, err) and whether the
\* temporary directory exists when it returns
ExtractZIP(outcome) ==
  IF outcome = "mkdir"
  THEN [extractedDir |-> "", cleanup |-> "nil", err |-> outcome, exists |-> FALSE]
  ELSE IF outcome \in {"open", "entry", "nomanifest"}
  THEN [extractedDir |-> "", cleanup |-> "nil", err |-> outcome,
        exists |-> RemoveAll(TRUE)]
  ELSE [extractedDir |-> "tmp", cleanup |-> "func", err |-> "none", exists |-> TRUE]

\* processZipFile up to the call of Import: ExtractZIP, NewImporter, the
\* progress channel and the reporter goroutine
processZipFile(c, chat) ==
  /\ pc[c] = "idle"
  /\ chatID' = [chatID EXCEPT ![c] = chat]
  /\ \E outcome \in ExtractOutcomes :
       LET e == ExtractZIP(outcome)
       IN  /\ workDir' = [workDir EXCEPT ![c] = e.exists]
           /\ IF e.err = "none"
              THEN /\ importer' = [importer EXCEPT ![c] = NewImporter(c)]
                   /\ activeLocks' = [activeLocks EXCEPT ![NewImporter(c)] = {}]
                   /\ pc' = [pc EXCEPT ![c] = "import"]
              ELSE /\ pc' = [pc EXCEPT ![c] = "done"]
                   /\ UNCHANGED <<importer, activeLocks>>
  /\ UNCHANGED <<chunkSize, reporter, extraction, calc, uploads, batch, put, manifest, loopVars, progress, tx, progressChan, ctxDone, ret,
                 storeVars, objects, live, faultsLeft, hist>>

\* Import: im.activeLocks.LoadOrStore(chatID, true)
ImportAcquire(c) ==
  /\ pc[c] = "import"
  /\ LET ls == LoadOrStore(activeLocks[importer[c]], chatID[c])
     IN  /\ activeLocks' = [activeLocks EXCEPT ![importer[c]] = ls.m]
         /\ IF ls.loaded
            THEN /\ pc' = [pc EXCEPT ![c] = "returned"]
                 /\ ret' = [ret EXCEPT ![c] = "already"]
            ELSE /\ pc' = [pc EXCEPT ![c] = "read"]
                 /\ UNCHANGED ret
  /\ UNCHANGED <<chunkSize, reporter, extraction, calc, uploads, batch, put, manifest, callVars, loopVars, progress, tx, progressChan,
                 ctxDone, storeVars, objects, live, faultsLeft, hist>>

\* Import: os.ReadFile and json.Unmarshal of result.json, the totals, and the
\* loop condition of the first chunk
ImportReadManifest(c) ==
  /\ pc[c] = "read"
  /\ \E outcome \in {"ok", "read", "parse"} :
       IF outcome = "ok" /\ chunkSize = 0
       \* the division by im.chunkSize = 0 panics: the deferred
       \* activeLocks.Delete, cancel and cleanup run
       THEN /\ pc' = [pc EXCEPT ![c] = "panicked"]
            /\ ret' = [ret EXCEPT ![c] = "panic"]
            /\ activeLocks' = Released(c)
            /\ workDir' = [workDir EXCEPT ![c] = FALSE]
            /\ UNCHANGED <<progress, chunkIdx>>
       ELSE IF outcome = "ok"
       THEN LET total  == Len(manifest)
                chunks == TotalChunksOf(total, chunkSize)
            IN  /\ progress' = [progress EXCEPT ![c] =
                       [ZeroProgress EXCEPT !.Total = total, !.TotalChunks = chunks]]
                /\ chunkIdx' = [chunkIdx EXCEPT ![c] = 0]
                /\ UNCHANGED workDir
                /\ IF 0 < chunks
                   THEN /\ pc' = [pc EXCEPT ![c] = "begin"]
                        /\ UNCHANGED <<ret, activeLocks>>
                   ELSE /\ pc' = [pc EXCEPT ![c] = "returned"]
                        /\ ret' = [ret EXCEPT ![c] = "nil"]
                        /\ activeLocks' = Released(c)
       ELSE /\ pc' = [pc EXCEPT ![c] = "returned"]
            /\ ret' = [ret EXCEPT ![c] = outcome]
            /\ activeLocks' = Released(c)
            /\ UNCHANGED <<progress, chunkIdx, workDir>>
  /\ UNCHANGED <<chunkSize, reporter, extraction, calc, uploads, batch, put, manifest, chatID, importer, msgIdx, tx, progressChan, ctxDone,
                 storeVars, objects, live, faultsLeft, hist>>

\* Variant: the error of processChunk is not counted.
ChunkFailedUncounted(p) == p

\* Variant: a failed chunk is counted by processChunk and by Import.
ChunkFailedTwice(p) == [p EXCEPT !.ErrorCount = @ + 2]

\* Import, when processChunk returned an error: progress.ErrorCount++
ChunkFailed(p) == [p EXCEPT !.ErrorCount = @ + 1]

\* len(progressChan): the snapshots sent and not yet received
Queued(c) == Len(progressChan[c]) - reporter[c].received

\* Variant: a send that never waits: with the channel full the snapshot is
\* dropped and the loop goes on (select with a default case).
PublishOrDrop(c, p) ==
  /\ progressChan' = [progressChan EXCEPT ![c] =
        IF Queued(c) < ProgressChanCap THEN Append(@, p) ELSE @]
  /\ IF chunkIdx[c] + 1 < p.TotalChunks
     THEN /\ chunkIdx' = [chunkIdx EXCEPT ![c] = @ + 1]
          /\ pc' = [pc EXCEPT ![c] = "begin"]
          /\ UNCHANGED <<ret, activeLocks>>
     ELSE /\ pc' = [pc EXCEPT ![c] = "returned"]
          /\ ret' = [ret EXCEPT ![c] = "nil"]
          /\ activeLocks' = [activeLocks EXCEPT ![importer[c]] = @ \ {chatID[c]}]
          /\ UNCHANGED chunkIdx

\* the end of a loop iteration of Import, with p the progress after the chunk:
\* select { case progressChan <- progress: ; case <-ctx.Done(): return ctx.Err() }
\* then chunkIdx++ and the loop condition
Publish(c, p) ==
  \/ /\ Queued(c) < ProgressChanCap
     /\ progressChan' = [progressChan EXCEPT ![c] = Append(@, p)]
     /\ IF chunkIdx[c] + 1 < p.TotalChunks
        THEN /\ chunkIdx' = [chunkIdx EXCEPT ![c] = @ + 1]
             /\ pc' = [pc EXCEPT ![c] = "begin"]
             /\ UNCHANGED <<ret, activeLocks>>
        ELSE /\ pc' = [pc EXCEPT ![c] = "returned"]
             /\ ret' = [ret EXCEPT ![c] = "nil"]
             /\ activeLocks' = Released(c)
             /\ UNCHANGED chunkIdx
  \/ /\ ctxDone[c]
     /\ pc' = [pc EXCEPT ![c] = "returned"]
     /\ ret' = [ret EXCEPT ![c] = "cancelled"]
     /\ activeLocks' = Released(c)
     /\ UNCHANGED <<chunkIdx, progressChan>>

\* Variant: the chunk number is the loop index.
ChunkStartedZeroBased(p, idx) == [p EXCEPT !.CurrentChunk = idx]

\* Variant: the progress value is initialised anew in every loop iteration.
ChunkStartedAnew(p, idx) ==
  [ZeroProgress EXCEPT !.Total = p.Total, !.TotalChunks = p.TotalChunks,
                       !.CurrentChunk = idx + 1]

\* Import at the top of a loop iteration: the one progress value of the
\* call gets progress.CurrentChunk = chunkIdx + 1
ChunkStarted(p, idx) == [p EXCEPT !.CurrentChunk = idx + 1]

\* progress.CurrentChunk = chunkIdx + 1 and BeginTx of processChunk; when
\* BeginTx fails, progress.ErrorCount++ and the progress update
processChunkBegin(c) ==
  /\ pc[c] = "begin"
  /\ \E fail \in BOOLEAN :
       IF fail
       THEN /\ faultsLeft > 0
            /\ faultsLeft' = faultsLeft - 1
            /\ progress' = [progress EXCEPT ![c] =
                   ChunkFailed(ChunkStarted(@, chunkIdx[c]))]
            /\ hist' = [hist EXCEPT
                 ![c].chunkFail = @ \cup {<<chunkIdx[c] + 1, "begin">>},
                 ![c].touched = @ \cup {"store"}]
            /\ Publish(c, progress'[c])
            /\ UNCHANGED <<tx, msgIdx>>
       ELSE /\ progress' = [progress EXCEPT ![c] = ChunkStarted(@, chunkIdx[c])]
            /\ tx' = [tx EXCEPT ![c] = "open"]
            /\ msgIdx' = [msgIdx EXCEPT ![c] = ChunkFirst(chunkIdx[c])]
            /\ hist' = [hist EXCEPT ![c].touched = @ \cup {"store"}]
            \* for i := start; i < end; i++
            /\ pc' = [pc EXCEPT ![c] =
                 IF ChunkFirst(chunkIdx[c]) <= ChunkLast(chunkIdx[c], progress[c].Total)
                 THEN "exists" ELSE "commit"]
            /\ UNCHANGED <<faultsLeft, chunkIdx, progressChan, ret, activeLocks>>
  /\ UNCHANGED <<chunkSize, reporter, extraction, calc, uploads, batch, put, manifest, callVars, ctxDone, storeVars, objects, live>>

\* i++ of the record loop of processChunk
NextRecord(c) ==
  IF msgIdx[c] + 1 <= ChunkLast(chunkIdx[c], progress[c].Total)
  THEN /\ msgIdx' = [msgIdx EXCEPT ![c] = @ + 1]
       /\ pc' = [pc EXCEPT ![c] = "exists"]
  ELSE /\ pc' = [pc EXCEPT ![c] = "commit"]
       /\ UNCHANGED msgIdx

\* progress.Processed++ and the existence check of the record
processMessageExists(c) ==
  /\ pc[c] = "exists"
  /\ LET exportMsg == manifest[msgIdx[c]]
         exists == IF exportMsg.Type = "service"
                   THEN ServiceMessageExists(chatID[c], exportMsg.ID)
                   ELSE MessageExists(chatID[c], exportMsg.ID)
     IN  \E fail \in BOOLEAN :
           IF fail
           THEN /\ faultsLeft > 0
                /\ faultsLeft' = faultsLeft - 1
                /\ progress' = [progress EXCEPT ![c].Processed = @ + 1,
                                                ![c].ErrorCount = @ + 1]
                /\ hist' = [hist EXCEPT ![c].lastFail = {"exists"}]
                /\ NextRecord(c)
           ELSE IF exists
           THEN /\ progress' = [progress EXCEPT ![c].Processed = @ + 1,
                                                ![c].Skipped = @ + 1]
                /\ hist' = [hist EXCEPT ![c].lastFail = {}]
                /\ NextRecord(c)
                /\ UNCHANGED faultsLeft
           ELSE /\ progress' = [progress EXCEPT ![c].Processed = @ + 1]
                /\ hist' = [hist EXCEPT ![c].lastFail = {}]
                /\ pc' = [pc EXCEPT ![c] = "record"]
                /\ UNCHANGED <<msgIdx, faultsLeft>>
  /\ UNCHANGED <<chunkSize, reporter, extraction, calc, uploads, batch, put, manifest, callVars, activeLocks, chunkIdx, tx, progressChan,
                 ctxDone, ret, storeVars, objects, live>>

\* the rest of processMessage for a record not found by the existence check
processMessageBody(c) ==
  /\ pc[c] = "record"
  /\ \E F \in SUBSET FaultOps :
       LET o == processMessage(manifest[msgIdx[c]], chatID[c], F)
       IN  /\ o.used = F
           /\ Cardinality(F) <= faultsLeft
           /\ faultsLeft' = faultsLeft - Cardinality(F)
           /\ chats' = o.chats
           /\ users' = o.users
           /\ objects' = o.objects
           /\ messages' = o.messages
           /\ service_messages' = o.service_messages
           /\ uploads' = IF o.media > 0 /\ o.inserted > 0
                         THEN uploads \cup
                                {[chat_id |-> chatID[c],
                                  telegram_message_id |-> manifest[msgIdx[c]].ID,
                                  key |-> Hash(Files[GetMediaPath(manifest[msgIdx[c]])])]}
                         ELSE uploads
           /\ hist' = [hist EXCEPT
                ![c].lastFail = o.fails,
                ![c].media = @ \cup
                    (IF o.media > 0
                     THEN {[id |-> manifest[msgIdx[c]].ID,
                            key |-> Hash(Files[GetMediaPath(manifest[msgIdx[c]])]),
                            inserted |-> o.inserted > 0]}
                     ELSE {}),
                ![c].added = @ + (BagCardinality(o.messages)
                                  + BagCardinality(o.service_messages))
                               - (BagCardinality(messages)
                                  + BagCardinality(service_messages)),
                ![c].touched = @ \cup
                    (IF o.media > 0 \/ o.fails \cap {"mediaread", "put"} # {}
                     THEN {"media"} ELSE {})]
           /\ IF o.panic
              \* the panic unwinds Import and processZipFile: the deferred
              \* tx.Rollback, activeLocks.Delete, cancel and cleanup run
              THEN /\ pc' = [pc EXCEPT ![c] = "panicked"]
                   /\ ret' = [ret EXCEPT ![c] = "panic"]
                   /\ tx' = [tx EXCEPT ![c] = "none"]
                   /\ activeLocks' = Released(c)
                   /\ workDir' = [workDir EXCEPT ![c] = FALSE]
                   /\ UNCHANGED <<progress, msgIdx>>
              ELSE /\ progress' = [progress EXCEPT
                        ![c].Inserted = @ + o.inserted,
                        ![c].MediaUploaded = @ + o.media,
                        ![c].ErrorCount = @ + (IF o.err THEN 1 ELSE 0)]
                   /\ NextRecord(c)
                   /\ UNCHANGED <<ret, tx, activeLocks, workDir>>
  /\ UNCHANGED <<chunkSize, reporter, extraction, calc, batch, put, manifest, chatID,
                 importer, chunkIdx, progressChan, ctxDone, live>>

\* Variant: the chunk's statements ran on tx, so that the rollback removes
\* the rows the chunk inserted.
RollbackUndoing(table, c) ==
  LET kept == {row \in DOMAIN table :
                 ~(/\ row.chat_id = chatID[c]
                   /\ row.telegram_message_id \in
                        ChunkFirst(chunkIdx[c])..ChunkLast(chunkIdx[c], progress[c].Total))}
  IN  [row \in kept |-> table[row]]

\* a table after the deferred tx.Rollback() that follows a failed
\* tx.Commit(): no statement of the chunk ran on tx, nothing is undone
Rollback(table, c) == table

\* tx.Commit of processChunk, progress.ErrorCount++ on its error, and the
\* progress update
processChunkCommit(c) ==
  /\ pc[c] = "commit"
  /\ tx' = [tx EXCEPT ![c] = "none"]
  /\ \E fail \in BOOLEAN :
       /\ IF fail
          THEN /\ faultsLeft > 0
               /\ faultsLeft' = faultsLeft - 1
               /\ progress' = [progress EXCEPT ![c] = ChunkFailed(@)]
               /\ hist' = [hist EXCEPT
                    ![c].chunkFail = @ \cup {<<chunkIdx[c] + 1, "commit">>}]
               /\ messages' = Rollback(messages, c)
               /\ service_messages' = Rollback(service_messages, c)
          ELSE UNCHANGED <<progress, faultsLeft, hist, messages, service_messages>>
       /\ Publish(c, progress'[c])
  /\ UNCHANGED <<chunkSize, reporter, extraction, calc, uploads, batch, put, manifest,
                 callVars, msgIdx, ctxDone, chats, users, objects, live>>

\* processZipFile after Import returned: close(progressChan), then the
\* deferred cancel and cleanup
processZipFileReturn(c) ==
  /\ pc[c] = "returned"
  /\ pc' = [pc EXCEPT ![c] = "done"]
  /\ workDir' = [workDir EXCEPT ![c] = RemoveAll(@)]
  /\ UNCHANGED <<chunkSize, reporter, extraction, calc, uploads, batch, put, manifest, chatID, importer, activeLocks, loopVars, progress,
                 tx, progressChan, ctxDone, ret, storeVars, objects, live,
                 faultsLeft, hist>>

(***************************************************************************)
(* Live capture: the handlers of incoming updates write to the same tables *)
(***************************************************************************)
\* message ids live updates may carry: those an export can contain as well
LiveIds == 1..MaxRecords
LiveSender == 7
LiveJoined == 8

\* what a live message carries: no media, a photo whose upload succeeds, or
\* a photo whose download or upload fails
LiveMedia == {"none", "photo", "photo_fails"}
LivePhoto == "bytesA"

\* HandleMessage for a text or photo message: UpsertChat, UpsertUser,
\* handlePhoto with uploadFileToMinIO, InsertMessage.  The hash that
\* uploadFileToMinIO returns goes to MediaFileName; storeMsg.MediaSHA256 is
\* never set.
HandleMessage(chat, tid) ==
  /\ live < MaxLive
  /\ live' = live + 1
  /\ \E media \in LiveMedia :
       LET chats1 == chats \cup {chat}
           users1 == users \cup {LiveSender}
           up     == IF media = "none"
                     THEN [err |-> TRUE, key |-> "", objs |-> objects]
                     ELSE UploadFile(LivePhoto, "image/jpeg", media = "photo_fails")
           row    == [chat_id |-> chat, telegram_message_id |-> tid,
                      user_id |-> <<LiveSender>>,
                      forwarded_from_user_id |-> <<>>, media_sha256 |-> <<>>]
           ins    == InsertMessage(row, chats1, users1, FALSE)
       IN  /\ chats' = chats1
           /\ users' = users1
           /\ objects' = up.objs
           /\ messages' = ins.rows
           /\ uploads' = IF media # "none" /\ ~up.err /\ ~ins.err
                         THEN uploads \cup {[chat_id |-> chat,
                                             telegram_message_id |-> tid,
                                             key |-> up.key]}
                         ELSE uploads
  /\ UNCHANGED <<chunkSize, reporter, extraction, calc, batch, put, manifest, pc, callVars,
                 activeLocks, loopVars, progress, tx, progressChan, ctxDone, ret,
                 service_messages, faultsLeft, hist>>

\* HandleUserJoined: UpsertChat, UpsertUser of the joined user and of the
\* sender, InsertServiceMessage
HandleUserJoined(chat, tid) ==
  /\ live < MaxLive
  /\ live' = live + 1
  /\ LET chats1 == chats \cup {chat}
         users1 == users \cup {LiveJoined, LiveSender}
         row    == [chat_id |-> chat, telegram_message_id |-> tid,
                    actor_user_id |-> <<LiveSender>>]
     IN  /\ chats' = chats1
         /\ users' = users1
         /\ service_messages' = InsertServiceMessage(row, chats1, users1, FALSE).rows
  /\ UNCHANGED <<chunkSize, reporter, extraction, calc, uploads, batch, put, manifest, pc, callVars, activeLocks, loopVars, progress, tx,
                 progressChan, ctxDone, ret, messages, objects, faultsLeft, hist>>

(***************************************************************************)
(* Specifications                                                          *)
(***************************************************************************)
ImportStep(c) ==
  \/ ImportAcquire(c)
  \/ ImportReadManifest(c)
  \/ processChunkBegin(c)
  \/ processMessageExists(c)
  \/ processMessageBody(c)
  \/ processChunkCommit(c)

LiveStep ==
  \E chat \in Chats, tid \in LiveIds :
    \/ HandleMessage(chat, tid)
    \/ HandleUserJoined(chat, tid)

\* the bot: /import commands are handled concurrently with each other and
\* with live capture
Next ==
  \/ \E c \in Calls, chat \in Chats : processZipFile(c, chat)
  \/ \E c \in Calls : ImportStep(c)
  \/ \E c \in Calls : processZipFileReturn(c)
  \/ LiveStep

Spec == Init /\ [][Next]_vars

\* one /import at a time, all in the same chat, on a bot that captures
\* nothing meanwhile, over the larger manifests and with failing operations
InFlight(c) == pc[c] \notin {"idle", "done", "panicked"}

SeqChats == {1}

InitSeq ==
  /\ InitCommon
  /\ chunkSize = ImportChunkSize
  /\ manifest \in ManifestsSeq
  /\ faultsLeft = MaxFaults
  /\ pc = [c \in Calls |-> "idle"]
  /\ chatID = [c \in Calls |-> 0]
  /\ importer = [c \in Calls |-> NoImporter]
  /\ workDir = [c \in Calls |-> FALSE]

NextSeq ==
  \/ \E c \in Calls, chat \in SeqChats :
       (\A d \in Calls : ~InFlight(d)) /\ processZipFile(c, chat)
  \/ \E c \in Calls : ImportStep(c)
  \/ \E c \in Calls : processZipFileReturn(c)

SpecSeq == InitSeq /\ [][NextSeq]_vars

\* Importer.Import as a component: callers share one Importer, extract the
\* archive into the directory they pass, and may cancel the context they pass
InitImporter ==
  /\ InitCommon
  /\ chunkSize = ImportChunkSize
  /\ manifest \in Manifests(RecordKindsConcurrent, MaxRecords)
  /\ faultsLeft = 0
  /\ pc = [c \in Calls |-> "idle"]
  /\ chatID \in [Calls -> Chats]
  /\ importer = [c \in Calls |-> SharedImporter]
  /\ workDir = [c \in Calls |-> FALSE]

\* a caller of Import: ExtractZIP gave it extractedDir, then it calls Import
ExtractThenImport(c) ==
  /\ pc[c] = "idle"
  /\ workDir' = [workDir EXCEPT ![c] = TRUE]
  /\ pc' = [pc EXCEPT ![c] = "import"]
  /\ UNCHANGED <<chunkSize, reporter, extraction, calc, uploads, batch, put, manifest, chatID, importer, activeLocks, loopVars, progress,
                 tx, progressChan, ctxDone, ret, storeVars, objects, live,
                 faultsLeft, hist>>

\* the caller cancels the context of its Import call
Cancel(c) ==
  /\ pc[c] \notin {"idle", "returned", "panicked"}
  /\ ~ctxDone[c]
  /\ ctxDone' = [ctxDone EXCEPT ![c] = TRUE]
  /\ UNCHANGED <<chunkSize, reporter, extraction, calc, uploads, batch, put, manifest, pc, callVars, activeLocks, loopVars, progress, tx,
                 progressChan, ret, storeVars, objects, live, faultsLeft, hist>>

NextImporter ==
  \/ \E c \in Calls : ExtractThenImport(c)
  \/ \E c \in Calls : ImportStep(c)
  \/ \E c \in Calls : Cancel(c)

SpecImporter == InitImporter /\ [][NextImporter]_vars

\* Import as a component, one call, with cancellation, failing operations
\* and all record kinds, also over manifests with more chunks than the
\* progress channel holds snapshots; nothing receives from the channel
LongManifests ==
  {ManifestOf([k \in 1..((ProgressChanCap + n) * ImportChunkSize) |-> "msg"]) :
     n \in 1..MaxExtraChunks}

OneCall == 1

InitCancel ==
  /\ InitCommon
  /\ chunkSize = ImportChunkSize
  /\ manifest \in ManifestsSeq \cup LongManifests
  /\ faultsLeft = MaxFaults
  /\ pc = [c \in Calls |-> "idle"]
  /\ chatID = [c \in Calls |-> 1]
  /\ importer = [c \in Calls |-> SharedImporter]
  /\ workDir = [c \in Calls |-> FALSE]

NextCancel ==
  \/ ExtractThenImport(OneCall)
  \/ ImportStep(OneCall)
  \/ Cancel(OneCall)

SpecCancel == InitCancel /\ [][NextCancel]_vars

\* go h.updateImportProgress(...): the goroutine starts; with statusMsg nil
\* (the status message could not be sent) it returns at once
updateImportProgressStart(c) ==
  /\ reporter[c].pc = "none"
  /\ pc[c] # "idle" /\ importer[c] # NoImporter
  /\ \E statusMsg \in {"nil", "sent"} :
       reporter' = [reporter EXCEPT
                      ![c].pc = IF statusMsg = "nil" THEN "returned" ELSE "loop",
                      ![c].how = IF statusMsg = "nil" THEN "nil" ELSE ""]
  /\ UNCHANGED <<chunkSize, extraction, calc, uploads, batch, put, manifest, pc, callVars,
                 activeLocks, loopVars, progress, tx, progressChan, ctxDone, ret,
                 storeVars, objects, live, faultsLeft, hist>>

\* case progress, ok := <-progressChan with a snapshot in the channel:
\* lastProgress = progress; needsUpdate = true
updateImportProgressReceive(c) ==
  /\ reporter[c].pc = "loop"
  /\ Queued(c) > 0
  /\ reporter' = [reporter EXCEPT
                    ![c].received = @ + 1,
                    ![c].lastProgress = progressChan[c][reporter[c].received + 1],
                    ![c].needsUpdate = TRUE]
  /\ UNCHANGED <<chunkSize, extraction, calc, uploads, batch, put, manifest, pc, callVars,
                 activeLocks, loopVars, progress, tx, progressChan, ctxDone, ret,
                 storeVars, objects, live, faultsLeft, hist>>

\* case <-ticker.C with an update pending: sendProgressUpdate(..., false)
\* and needsUpdate = false
updateImportProgressTick(c) ==
  /\ reporter[c].pc = "loop"
  /\ reporter[c].needsUpdate
  /\ reporter' = [reporter EXCEPT ![c].needsUpdate = FALSE]
  /\ UNCHANGED <<chunkSize, extraction, calc, uploads, batch, put, manifest, pc, callVars,
                 activeLocks, loopVars, progress, tx, progressChan, ctxDone, ret,
                 storeVars, objects, live, faultsLeft, hist>>

\* Variant: the final summary is rendered whenever the channel is closed.
RendersFinalAlways(needsUpdate) == TRUE

\* if needsUpdate { h.sendProgressUpdate(c, statusMsg, lastProgress, fileName, true) }
RendersFinal(needsUpdate) == needsUpdate

\* the receive from the closed and drained channel (!ok): the final summary
\* if an update is pending, then return.  processZipFile has closed the
\* channel on both of its paths once Import has returned to it.
updateImportProgressClosed(c) ==
  /\ reporter[c].pc = "loop"
  /\ pc[c] = "done"
  /\ Queued(c) = 0
  /\ reporter' = [reporter EXCEPT
                    ![c].pc = "returned",
                    ![c].how = "closed",
                    ![c].final = IF RendersFinal(reporter[c].needsUpdate)
                                 THEN <<reporter[c].lastProgress>> ELSE <<>>]
  /\ UNCHANGED <<chunkSize, extraction, calc, uploads, batch, put, manifest, pc, callVars,
                 activeLocks, loopVars, progress, tx, progressChan, ctxDone, ret,
                 storeVars, objects, live, faultsLeft, hist>>

\* case <-ctx.Done() after the deferred cancel of processZipFile, which runs
\* when processZipFile returns or a panic unwinds it: return.  After the
\* return of processZipFile this case and the receive are both ready.
updateImportProgressDone(c) ==
  /\ reporter[c].pc = "loop"
  /\ pc[c] \in {"done", "panicked"}
  /\ reporter' = [reporter EXCEPT ![c].pc = "returned", ![c].how = "cancelled"]
  /\ UNCHANGED <<chunkSize, extraction, calc, uploads, batch, put, manifest, pc, callVars,
                 activeLocks, loopVars, progress, tx, progressChan, ctxDone, ret,
                 storeVars, objects, live, faultsLeft, hist>>

ReporterStep(c) ==
  \/ updateImportProgressStart(c)
  \/ updateImportProgressReceive(c)
  \/ updateImportProgressTick(c)
  \/ updateImportProgressClosed(c)
  \/ updateImportProgressDone(c)

\* one /import handler call with its progress reporter, also over manifests
\* with more chunks than the progress channel holds; every goroutine that
\* can take a step eventually takes one
InitReporter ==
  /\ InitCommon
  /\ chunkSize = ImportChunkSize
  /\ manifest \in Manifests(RecordKindsConcurrent, MaxRecords) \cup LongManifests
  /\ faultsLeft = 0
  /\ pc = [c \in Calls |-> "idle"]
  /\ chatID = [c \in Calls |-> 0]
  /\ importer = [c \in Calls |-> NoImporter]
  /\ workDir = [c \in Calls |-> FALSE]

NextReporter ==
  \/ processZipFile(OneCall, 1)
  \/ ImportStep(OneCall)
  \/ processZipFileReturn(OneCall)
  \/ ReporterStep(OneCall)

SpecReporter ==
  /\ InitReporter /\ [][NextReporter]_vars
  /\ WF_vars(ImportStep(OneCall))
  /\ WF_vars(processZipFileReturn(OneCall))
  /\ WF_vars(ReporterStep(OneCall))

\* one /import handler call on an empty store with nothing failing, over
\* every manifest length and chunk size
InitChunks ==
  /\ InitCommon
  /\ chunkSize \in 1..MaxChunkSize
  /\ manifest \in Manifests(RecordKindsConcurrent, MaxTotal)
  /\ faultsLeft = 0
  /\ pc = [c \in Calls |-> "idle"]
  /\ chatID = [c \in Calls |-> 0]
  /\ importer = [c \in Calls |-> NoImporter]
  /\ workDir = [c \in Calls |-> FALSE]

NextChunks ==
  \/ processZipFile(OneCall, 1)
  \/ ImportStep(OneCall)
  \/ processZipFileReturn(OneCall)

SpecChunks == InitChunks /\ [][NextChunks]_vars

\* the files an /import command finds: file k is processed by handler call k
FileOf(c) == c

\* HandleImportCommand up to the loop: scanForZipFiles finds the ZIP files of
\* the import directory, in directory order; with none found it returns
HandleImportCommand ==
  /\ batch.state = "none"
  /\ \E n \in 0..MaxCalls :
       batch' = [batch EXCEPT !.files = n,
                              !.state = IF n = 0 THEN "ended" ELSE "running"]
  /\ UNCHANGED <<manifest, pc, chatID, importer, activeLocks, workDir, chunkIdx,
                 msgIdx, progress, tx, progressChan, ctxDone, ret, chats, users,
                 messages, service_messages, objects, live, faultsLeft, hist,
                 put, chunkSize, reporter, extraction, calc, uploads>>

\* the loop body when processZipFile returned an error: failedCount++; continue
FileFailed(b) ==
  [b EXCEPT !.failedCount = @ + 1, !.idx = @ + 1,
            !.state = IF b.idx + 1 = b.files THEN "ended" ELSE "running"]

\* the loop body when processZipFile returned nil: os.Remove(zipPath), whose
\* failure is logged only, and successCount++
FileDone(b, removed) ==
  [b EXCEPT !.successCount = @ + 1, !.idx = @ + 1,
            !.deleted = IF removed THEN @ \cup {FileOf(b.idx + 1)} ELSE @,
            !.state = IF b.idx + 1 = b.files THEN "ended" ELSE "running"]

\* the loop of HandleImportCommand calls processZipFile for the next file
HandleImportCommandProcess(c) ==
  /\ batch.state = "running"
  /\ FileOf(c) = batch.idx + 1
  /\ processZipFile(c, 1)

\* the loop of HandleImportCommand after processZipFile returned
HandleImportCommandNext(c) ==
  /\ batch.state = "running"
  /\ FileOf(c) = batch.idx + 1
  /\ pc[c] = "done"
  /\ IF ret[c] # "nil"
     THEN batch' = FileFailed(batch)
     ELSE \E removed \in BOOLEAN : batch' = FileDone(batch, removed)
  /\ UNCHANGED <<manifest, pc, chatID, importer, activeLocks, workDir, chunkIdx,
                 msgIdx, progress, tx, progressChan, ctxDone, ret, chats, users,
                 messages, service_messages, objects, live, faultsLeft, hist,
                 put, chunkSize, reporter, extraction, calc, uploads>>

\* one /import command over the files of the import directory, each holding
\* the same manifest, with nothing failing in the stores
InitBatch ==
  /\ InitCommon
  /\ chunkSize = ImportChunkSize
  /\ manifest \in ManifestsSeq
  /\ faultsLeft = 0
  /\ pc = [c \in Calls |-> "idle"]
  /\ chatID = [c \in Calls |-> 0]
  /\ importer = [c \in Calls |-> NoImporter]
  /\ workDir = [c \in Calls |-> FALSE]

NextBatch ==
  \/ HandleImportCommand
  \/ \E c \in Calls : HandleImportCommandProcess(c)
  \/ \E c \in Calls : ImportStep(c)
  \/ \E c \in Calls : processZipFileReturn(c)
  \/ \E c \in Calls : HandleImportCommandNext(c)

SpecBatch == InitBatch /\ [][NextBatch]_vars

\* one /import handler call of a bot configured with any chunk size,
\* IMPORT_CHUNK_SIZE being any integer: zero and negative sizes as well
InitSizes ==
  /\ InitCommon
  /\ chunkSize \in (0 - MaxChunkSize)..MaxChunkSize
  /\ manifest \in Manifests(RecordKindsConcurrent, MaxRecordsSeq)
  /\ faultsLeft = 0
  /\ pc = [c \in Calls |-> "idle"]
  /\ chatID = [c \in Calls |-> 0]
  /\ importer = [c \in Calls |-> NoImporter]
  /\ workDir = [c \in Calls |-> FALSE]

NextSizes ==
  \/ processZipFile(OneCall, 1)
  \/ ImportStep(OneCall)
  \/ processZipFileReturn(OneCall)

SpecSizes == InitSizes /\ [][NextSizes]_vars

\* a caller of ExtractZIP: the call and what it returned
CallExtractZIP(c) ==
  /\ ~extraction[c].called
  /\ \E outcome \in ExtractOutcomes :
       LET e == ExtractZIP(outcome)
       IN  /\ workDir' = [workDir EXCEPT ![c] = e.exists]
           /\ extraction' = [extraction EXCEPT ![c] =
                 [called |-> TRUE, extractedDir |-> e.extractedDir,
                  cleanup |-> e.cleanup, err |-> e.err,
                  released |-> 0, panicked |-> FALSE]]
  /\ UNCHANGED <<chunkSize, reporter, calc, uploads, batch, put, manifest, pc, chatID,
                 importer, activeLocks, loopVars, progress, tx, progressChan,
                 ctxDone, ret, storeVars, objects, live, faultsLeft, hist>>

\* the caller invokes the cleanup function it was given; calling a nil
\* func value panics
CallCleanup(c) ==
  /\ extraction[c].called
  /\ ~extraction[c].panicked
  /\ extraction[c].released < MaxReleases
  /\ IF extraction[c].cleanup = "nil"
     THEN /\ extraction' = [extraction EXCEPT ![c].released = @ + 1,
                                              ![c].panicked = TRUE]
          /\ UNCHANGED workDir
     ELSE /\ extraction' = [extraction EXCEPT ![c].released = @ + 1]
          /\ workDir' = [workDir EXCEPT ![c] = RemoveAll(@)]
  /\ UNCHANGED <<chunkSize, reporter, calc, uploads, batch, put, manifest, pc, chatID,
                 importer, activeLocks, loopVars, progress, tx, progressChan,
                 ctxDone, ret, storeVars, objects, live, faultsLeft, hist>>

\* ExtractZIP as a component: callers extract archives and invoke the
\* cleanup they were given, on any exit path and more than once
InitExtract ==
  /\ InitCommon
  /\ chunkSize = ImportChunkSize
  /\ manifest = <<>>
  /\ faultsLeft = 0
  /\ pc = [c \in Calls |-> "idle"]
  /\ chatID = [c \in Calls |-> 0]
  /\ importer = [c \in Calls |-> NoImporter]
  /\ workDir = [c \in Calls |-> FALSE]

NextExtract ==
  \/ \E c \in Calls : CallExtractZIP(c)
  \/ \E c \in Calls : CallCleanup(c)

SpecExtract == InitExtract /\ [][NextExtract]_vars

\* the normalisation helpers of the record model, each applied to one
\* argument: the fields DetermineMediaType reads, the date fields, and the
\* action keywords
MediaHints ==
  {"video_file", "voice_message", "animation", "sticker", "video_message",
   "audio_file", ""}

MediaInputs ==
  [Photo : {<<>>, <<"">>, <<"photos/p1.jpg">>},
   MediaType : {<<>>} \cup {<<h>> : h \in MediaHints},
   File : {<<>>, <<"">>, <<"files/f1.bin">>}]

IsoOffset == IsoLocal \o <<"+", "0", "2", ":", "0", "0">>

DateInputs ==
  [DateUnixtime : {<<>>, Epoch, NotANumber, <<"-", "5">>},
   Date : {<<>>, IsoLocal, IsoZ, IsoOffset, <<"x">>}]

ActionInputs == DOMAIN actionMap \cup {"create_group", "phone_call", ""}

HelperCalls ==
  {[fn |-> "DetermineMediaType", arg |-> a, done |-> FALSE, result |-> <<>>] :
     a \in MediaInputs}
  \cup {[fn |-> "parseMessageDate", arg |-> a, done |-> FALSE, result |-> <<>>] :
     a \in DateInputs}
  \cup {[fn |-> "MapServiceAction", arg |-> a, done |-> FALSE, result |-> <<>>] :
     a \in ActionInputs}

Apply(fn, result) ==
  /\ calc.fn = fn /\ ~calc.done
  /\ calc' = [calc EXCEPT !.done = TRUE, !.result = result]
  /\ UNCHANGED <<chunkSize, reporter, extraction, uploads, batch, put, manifest, pc,
                 chatID, importer, workDir, activeLocks, loopVars, progress, tx,
                 progressChan, ctxDone, ret, storeVars, objects, live,
                 faultsLeft, hist>>

ApplyDetermineMediaType == Apply("DetermineMediaType", DetermineMediaType(calc.arg))

ApplyparseMessageDate == Apply("parseMessageDate", parseMessageDate(calc.arg))

ApplyMapServiceAction == Apply("MapServiceAction", MapServiceAction(calc.arg))

InitHelpers ==
  /\ chunkIdx = [c \in Calls |-> 0]
  /\ msgIdx = [c \in Calls |-> 0]
  /\ progress = [c \in Calls |-> ZeroProgress]
  /\ tx = [c \in Calls |-> "none"]
  /\ progressChan = [c \in Calls |-> <<>>]
  /\ ctxDone = [c \in Calls |-> FALSE]
  /\ ret = [c \in Calls |-> "none"]
  /\ activeLocks = [i \in Importers |-> {}]
  /\ chats = {} /\ users = {}
  /\ messages = EmptyBag /\ service_messages = EmptyBag
  /\ objects = {} /\ live = 0
  /\ hist = [c \in Calls |-> ZeroHist]
  /\ put = ZeroPut
  /\ reporter = [c \in Calls |-> NoReporter]
  /\ extraction = [c \in Calls |-> NotExtracted]
  /\ uploads = {}
  /\ batch = NoBatch
  /\ calc \in HelperCalls
  /\ chunkSize = ImportChunkSize
  /\ manifest = <<>>
  /\ faultsLeft = 0
  /\ pc = [c \in Calls |-> "idle"]
  /\ chatID = [c \in Calls |-> 0]
  /\ importer = [c \in Calls |-> NoImporter]
  /\ workDir = [c \in Calls |-> FALSE]

NextHelpers ==
  \/ ApplyDetermineMediaType
  \/ ApplyparseMessageDate
  \/ ApplyMapServiceAction

SpecHelpers == InitHelpers /\ [][NextHelpers]_vars

\* the media store under concurrent Put calls
InitPut ==
  /\ InitCommon
  /\ chunkSize = ImportChunkSize
  /\ manifest = <<>>
  /\ faultsLeft = 0
  /\ pc = [c \in Calls |-> "idle"]
  /\ chatID = [c \in Calls |-> 0]
  /\ importer = [c \in Calls |-> NoImporter]
  /\ workDir = [c \in Calls |-> FALSE]

NextPut ==
  \/ \E p \in Putters, bytes \in Payloads, contentType \in ContentTypes :
       PutStart(p, bytes, contentType)
  \/ \E p \in Putters : PutProbe(p)
  \/ \E p \in Putters : PutUpload(p)

SpecPut == InitPut /\ [][NextPut]_vars

TypeOK ==
  /\ pc \in [Calls -> {"idle", "import", "read", "begin", "exists", "record",
                       "commit", "returned", "done", "panicked"}]
  /\ ret \in [Calls -> {"none", "nil", "already", "read", "parse", "cancelled", "panic"}]
  /\ \A c \in Calls : progress[c].Processed <= progress[c].Total

(***************************************************************************)
(* Properties                                                              *)
(***************************************************************************)
\* a call is Importing from the moment Import stored the lock until it returns
Importing(c) == pc[c] \in {"read", "begin", "exists", "record", "commit"}

\* another call is Importing chat id chatID[c] on the Importer of call c
OtherImporting(c) ==
  \E d \in Calls \ {c} :
    Importing(d) /\ importer[d] = importer[c] /\ chatID[d] = chatID[c]

\* C1: single-flight, process-wide: for every conversation id at most one
\* Import call is Importing at any time, also when the calls come from
\* separate /import invocations, each with its own Importer.
C1_SingleFlight ==
  \A c, d \in Calls :
    (c # d /\ Importing(c) /\ Importing(d)) => chatID[c] # chatID[d]

C3_LockBeforeExtraction ==
  \A c \in Calls :
    /\ (workDir[c] /\ ret[c] = "none") => HoldsLock(c)
    /\ ret[c] # "none" => ~HoldsLock(c)

\* C3, amended: the lock of an Importer holds exactly the conversation ids
\* of the calls that are Importing on it: it is taken before the manifest is
\* read or parsed and given back on every return path of the call that took
\* it; and a call that finds no other call Importing its conversation id on
\* its Importer is not rejected.
C3_LockedExactlyWhileImporting ==
  /\ [](\A i \in Importers :
          activeLocks[i] =
            {chatID[c] : c \in {d \in Calls : importer[d] = i /\ Importing(d)}})
  /\ [][\A c \in Calls :
          (pc[c] = "import" /\ pc'[c] # "import" /\ ~OtherImporting(c)) =>
            (pc'[c] = "read" /\ ret'[c] = "none")]_vars

C3_Witness ==
  \E c, d \in Calls :
    /\ c # d /\ chatID[c] = chatID[d] /\ importer[c] = importer[d]
    /\ ret[c] = "cancelled" /\ pc[c] = "returned"
    /\ pc[d] = "read"
    /\ activeLocks[importer[d]] = {chatID[d]}

\* C4: whatever the interleaving of imports, re-imports and live capture,
\* the store holds at most one message row and at most one service row for
\* each (conversation id, source record id).
OneRowPerKey(table) ==
  \A r \in BagToSet(table) :
    /\ CopiesIn(r, table) = 1
    /\ \A q \in BagToSet(table) :
         (q.chat_id = r.chat_id /\ q.telegram_message_id = r.telegram_message_id)
           => q = r

C4_OneRowPerKey == OneRowPerKey(messages) /\ OneRowPerKey(service_messages)

\* two imports of the same conversation both got past the existence check
\* of the same message record
C4_Witness ==
  \E c, d \in Calls :
    /\ c # d /\ chatID[c] = chatID[d]
    /\ ret[c] = "nil" /\ ret[d] = "nil"
    /\ progress[c].Processed = 1 /\ progress[d].Processed = 1
    /\ progress[c].Skipped = 0 /\ progress[d].Skipped = 0
    /\ manifest[1].Type = "message"
    /\ BagCardinality(messages) >= 1

\* the record of the manifest is stored for conversation chat
RecordPresent(chat, exportMsg) ==
  IF exportMsg.Type = "service"
  THEN HasKey(service_messages, chat, exportMsg.ID)
  ELSE HasKey(messages, chat, exportMsg.ID)

\* the chunk (1-based) that holds position i of the manifest
ChunkOf(i) == (i - 1) \div chunkSize + 1

\* neither date field of the record can be parsed
BadDate(exportMsg) ==
  ~ParseInt(exportMsg.DateUnixtime).ok /\ ~IsRFC3339(exportMsg.Date)

\* nothing but its date can go wrong with the record on its own: its ids
\* parse, a service record with an actor id has an actor name, it forwards
\* nothing, and the media file it names is in the archive
FlawlessButDate(exportMsg) ==
  /\ exportMsg.FromID = <<>> \/ ParseUserID(exportMsg.FromID).ok
  /\ exportMsg.ActorID = <<>>
       \/ (ParseUserID(exportMsg.ActorID[1]).ok /\ exportMsg.Actor # <<>>)
  /\ exportMsg.ForwardedFromID = <<>>
  /\ GetMediaPath(exportMsg) = "" \/ GetMediaPath(exportMsg) \in DOMAIN Files

Flawless(exportMsg) == FlawlessButDate(exportMsg) /\ ~BadDate(exportMsg)

\* call c is the first import of the behaviour and Import has returned
FirstRunReturned(c) ==
  /\ pc[c] \in {"returned", "panicked"}
  /\ \A d \in Calls \ {c} : pc[d] = "idle"

\* C5: idempotent re-import: of two Import runs in sequence on the same
\* manifest, the first into an empty store, with no operation failing for a
\* reason outside the archive, the second inserts nothing, skips as many
\* records as the first inserted, and changes neither rows nor media.
C5_IdempotentReimport ==
  /\ [](\A c, d \in Calls :
          (/\ c # d /\ chatID[c] = chatID[d]
           /\ pc[c] = "done" /\ ret[c] = "nil"
           /\ pc[d] = "returned" /\ ret[d] = "nil"
           /\ faultsLeft = MaxFaults)
          => (/\ progress[d].Inserted = 0
              /\ progress[d].Skipped = progress[c].Inserted))
  /\ [][\A c, d \in Calls :
          (/\ c # d /\ chatID[c] = chatID[d]
           /\ pc[c] = "done" /\ ret[c] = "nil"
           /\ Importing(d) /\ faultsLeft' = MaxFaults)
          => (messages' = messages /\ service_messages' = service_messages
              /\ objects' = objects)]_vars

\* C6: chunk isolation: when the commit of chunk k failed, after Import
\* returned no record of chunk k is in the store, the records of the other
\* chunks are, and the error counter is at least one.
C6_ChunkIsolation ==
  \A c \in Calls :
    (FirstRunReturned(c) /\ ret[c] = "nil") =>
      \A i \in 1..Len(manifest) :
        IF <<ChunkOf(i), "commit">> \in hist[c].chunkFail
        THEN /\ ~RecordPresent(chatID[c], manifest[i])
             /\ progress[c].ErrorCount >= 1
        ELSE (Flawless(manifest[i])
              /\ <<ChunkOf(i), "begin">> \notin hist[c].chunkFail)
               => RecordPresent(chatID[c], manifest[i])

\* C7: a chunk whose transaction fails to begin or to commit does not stop
\* the import: the error counter counts the failed chunks, the snapshot of
\* the failed chunk is published, the loop goes on to the next chunk, every
\* chunk has had its iteration when Import returns, and Import returns nil.
C7_ChunkFailureDoesNotStop ==
  \A c \in Calls :
    \A f \in hist[c].chunkFail :
      LET k == f[1] IN
      /\ progress[c].ErrorCount >= Cardinality(hist[c].chunkFail)
      /\ Len(progressChan[c]) >= k
      /\ progressChan[c][k].CurrentChunk = k
      /\ progressChan[c][k].ErrorCount >= 1
      /\ IF k < progress[c].TotalChunks
         THEN chunkIdx[c] >= k
         ELSE pc[c] \in {"returned", "done"}
      /\ pc[c] \in {"returned", "done"} =>
           /\ ret[c] = "nil"
           /\ Len(progressChan[c]) = progress[c].TotalChunks
           /\ chunkIdx[c] = progress[c].TotalChunks - 1

C7_Witness ==
  \E c \in Calls :
    /\ pc[c] = "returned" /\ ret[c] = "nil"
    /\ \E f \in hist[c].chunkFail : f[1] < progress[c].TotalChunks
    /\ progress[c].Inserted >= 1

\* C8: a manifest of N records of which exactly one has neither a parseable
\* epoch date nor a parseable ISO date, imported into an empty store with
\* no other failure, ends with Inserted = N-1, ErrorCount = 1 and nil.
OneBadDateOnly ==
  /\ Cardinality({i \in 1..Len(manifest) : BadDate(manifest[i])}) = 1
  /\ \A i \in 1..Len(manifest) : FlawlessButDate(manifest[i])

C8_OneBadDate ==
  \A c \in Calls :
    (/\ FirstRunReturned(c)
     /\ ret[c] \notin {"read", "parse"}
     /\ faultsLeft = MaxFaults
     /\ OneBadDateOnly)
    => (/\ progress[c].Inserted = Len(manifest) - 1
        /\ progress[c].ErrorCount = 1
        /\ ret[c] = "nil")

C8_Witness ==
  \E c \in Calls :
    /\ FirstRunReturned(c) /\ ret[c] = "nil" /\ faultsLeft = MaxFaults
    /\ OneBadDateOnly
    /\ Len(manifest) = MaxRecordsSeq
    /\ BadDate(manifest[2])
    /\ progress[c].Inserted = MaxRecordsSeq - 1

\* C9: no record aborts its batch: whatever goes wrong with a record, also
\* a service record with an actor id and no actor name, Import does not
\* terminate abnormally, and a run whose chunks all began has attempted
\* every record.
C9_NoRecordAbortsItsBatch ==
  \A c \in Calls :
    /\ pc[c] # "panicked"
    /\ (pc[c] = "returned" /\ ret[c] = "nil"
        /\ \A f \in hist[c].chunkFail : f[2] # "begin")
         => progress[c].Processed = progress[c].Total

\* C10: every per-record failure is counted: a record with an unparseable
\* date, an unparseable actor id, a failed participant upsert, a failed
\* media read or upload, or a failed insert adds to the error counter, and
\* the import goes on.
CountedFailures == {"date", "idparse", "user", "mediaread", "put", "insert"}

C10_EveryRecordFailureCounted ==
  [][\A c \in Calls :
       (/\ pc[c] = "record" /\ pc'[c] # "record"
        /\ hist'[c].lastFail \cap CountedFailures # {})
       => (/\ pc'[c] \in {"exists", "commit"}
           /\ progress'[c].ErrorCount >= progress[c].ErrorCount + 1)]_vars

\* call c has taken a step of Import or of its caller
Stepped(c) == pc'[c] # pc[c] \/ msgIdx'[c] # msgIdx[c]

\* C11: Import returns a non-nil error only for the pipeline-fatal
\* conditions (lock held, manifest unreadable, manifest undecodable,
\* cancellation); a failure of a record or of a chunk never changes what
\* Import returns and shows only in the error counter.
C11_OnlyFatalErrorsReturned ==
  \A c \in Calls :
    pc[c] \in {"returned", "done", "panicked"} /\ importer[c] # NoImporter =>
      /\ ret[c] \in {"nil", "already", "read", "parse", "cancelled"}
      /\ ret[c] = "cancelled" => ctxDone[c]
      /\ ret[c] \in {"already", "read", "parse"} => progress[c] = ZeroProgress
      /\ progress[c].ErrorCount > 0 => ret[c] \in {"nil", "cancelled"}

\* C12: a record whose key is already stored is skipped without side
\* effects: Skipped grows by one, nothing is upserted, read, put or
\* inserted, and Inserted, MediaUploaded and ErrorCount stay as they are.
C12_SkipHasNoSideEffects ==
  [][\A c \in Calls :
       (/\ pc[c] = "exists" /\ Stepped(c)
        /\ RecordPresent(chatID[c], manifest[msgIdx[c]])
        /\ faultsLeft' = faultsLeft)
       => (/\ progress'[c] = [progress[c] EXCEPT !.Processed = @ + 1,
                                                 !.Skipped = @ + 1]
           /\ pc'[c] \in {"exists", "commit"}
           /\ storeVars' = storeVars
           /\ objects' = objects
           /\ hist'[c].touched = hist[c].touched)]_vars

C12_Witness ==
  \E c \in Calls :
    /\ pc[c] = "returned" /\ ret[c] = "nil"
    /\ progress[c].Skipped = 2 /\ progress[c].Inserted = 0
    /\ \E i \in 1..Len(manifest) : GetMediaPath(manifest[i]) \in DOMAIN Files

\* C13: a failed participant upsert never blocks the owning record: when
\* the actor id of a record parses, its participant upsert fails and nothing
\* else fails from outside, the record is inserted and Inserted grows by one.
C13_UpsertFailureDoesNotBlock ==
  [][\A c \in Calls :
       (/\ pc[c] = "record" /\ Stepped(c)
        /\ "user" \in hist'[c].lastFail
        /\ hist'[c].lastFail \subseteq {"user", "insert"}
        /\ faultsLeft' = faultsLeft - 1)
       => (/\ progress'[c].Inserted = progress[c].Inserted + 1
           /\ RecordPresent(chatID[c], manifest[msgIdx[c]])')]_vars

\* C14: a media failure never blocks the owning message: when the file of a
\* message's media path cannot be read or the Put fails, and the insert
\* itself succeeds, the message is stored without a media hash, Inserted
\* grows by one and MediaUploaded does not grow.
C14_MediaFailureDoesNotBlock ==
  [][\A c \in Calls :
       (/\ pc[c] = "record" /\ Stepped(c)
        /\ manifest[msgIdx[c]].Type # "service"
        /\ GetMediaPath(manifest[msgIdx[c]]) # ""
        /\ \/ GetMediaPath(manifest[msgIdx[c]]) \notin DOMAIN Files
           \/ faultsLeft' < faultsLeft
        /\ hist'[c].lastFail \subseteq {"mediaread", "put"})
       => (/\ progress'[c].Inserted = progress[c].Inserted + 1
           /\ progress'[c].MediaUploaded = progress[c].MediaUploaded
           /\ progress'[c].ErrorCount = progress[c].ErrorCount
           /\ objects' = objects
           /\ \E r \in BagToSet(messages') :
                /\ r.chat_id = chatID[c]
                /\ r.telegram_message_id = manifest[msgIdx[c]].ID
                /\ r.media_sha256 = <<>>)]_vars

C14_Witness ==
  \E c \in Calls :
    /\ pc[c] = "returned" /\ ret[c] = "nil"
    /\ hist[c].lastFail = {"put"}
    /\ progress[c].Inserted = Len(manifest) /\ progress[c].MediaUploaded = 0
    /\ \E r \in BagToSet(messages) : r.media_sha256 = <<>>

\* Put call p has derived its key
PutKeyed(p) == put.call[p].pc # "idle"

\* Put call p has returned a key
PutReturned(p) == put.call[p].pc = "done" /\ ~put.call[p].err

\* C15: dedup of the media store: Puts of byte-identical payloads get the
\* same key whatever content type is declared, the store holds one object
\* per key, which is the payload with that hash, Puts made one after the
\* other write a payload once, and a Put that finds its key in the store
\* writes nothing.
C15_PutDedup ==
  /\ [](\A p, q \in Putters :
          (PutKeyed(p) /\ PutKeyed(q) /\ put.call[p].bytes = put.call[q].bytes)
            => put.call[p].key = put.call[q].key)
  /\ [](/\ objects = DOMAIN put.content
        /\ \A k \in DOMAIN put.content : Hash(put.content[k]) = k
        /\ ~put.raced => \A k \in DOMAIN put.writes : put.writes[k] = 1)
  /\ [][\A p \in Putters :
          (put.call[p].pc = "probe" /\ put'.call[p].pc # "probe"
           /\ put.call[p].key \in objects)
          => (/\ put'.call[p].pc = "done"
              /\ ~put'.call[p].wrote /\ ~put'.call[p].err
              /\ put'.content = put.content
              /\ put'.writes = put.writes
              /\ objects' = objects)]_vars

C15_Witness ==
  \E p, q \in Putters :
    /\ p # q /\ ~put.raced
    /\ PutReturned(p) /\ PutReturned(q)
    /\ put.call[p].bytes = put.call[q].bytes
    /\ put.call[p].contentType # put.call[q].contentType
    /\ put.call[p].key = put.call[q].key
    /\ put.call[p].wrote /\ ~put.call[q].wrote
    /\ put.writes[put.call[p].key] = 1

\* C16: the race of two Puts of the same new content is benign: whatever
\* the interleaving, both return the same key and the store ends with one
\* object under that key, holding exactly the payload.
C16_PutRaceBenign ==
  \A p, q \in Putters :
    (/\ p # q /\ PutReturned(p) /\ PutReturned(q)
     /\ put.call[p].bytes = put.call[q].bytes)
    => (/\ put.call[p].key = put.call[q].key
        /\ put.call[p].key \in DOMAIN put.content
        /\ put.content[put.call[p].key] = put.call[p].bytes
        /\ objects = DOMAIN put.content)

\* both calls passed the probe before either had uploaded, and both uploaded
C16_Witness ==
  \E p, q \in Putters :
    /\ p # q /\ put.raced
    /\ PutReturned(p) /\ PutReturned(q)
    /\ put.call[p].bytes = put.call[q].bytes
    /\ put.call[p].wrote /\ put.call[q].wrote
    /\ put.writes[put.call[p].key] = 2
    /\ put.started = 2

\* call c takes the step that ends a loop iteration of Import: the select
\* on the progress channel and the context
PublishStep(c) ==
  /\ Stepped(c)
  /\ \/ pc[c] = "commit"
     \/ pc[c] = "begin" /\ hist'[c].chunkFail # hist[c].chunkFail

\* the k-th snapshot sent is the one of chunk k
SnapshotsInChunkOrder(c) ==
  \A k \in 1..Len(progressChan[c]) : progressChan[c][k].CurrentChunk = k

\* C17 as stated: snapshots are sent in chunk order, exactly one for every
\* chunk that was attempted.
C17_OneSnapshotPerAttemptedChunk ==
  \A c \in Calls :
    /\ SnapshotsInChunkOrder(c)
    /\ (pc[c] = "returned" /\ "store" \in hist[c].touched)
         => Len(progressChan[c]) = chunkIdx[c] + 1

\* C17, amended: the k-th snapshot sent is the one of chunk k, and chunk
\* k+1 is started only after the snapshot of chunk k has been sent: while
\* chunk j+1 is the latest chunk started, exactly the snapshots of chunks
\* 1..j have been sent, and the snapshot of chunk j+1 is added only when
\* its loop iteration ends with a send, not when Import is cancelled at its
\* publish point or terminates abnormally in it.
C17_SnapshotsFollowChunks ==
  \A c \in Calls :
    /\ SnapshotsInChunkOrder(c)
    /\ Len(progressChan[c]) =
         IF ret[c] = "nil" /\ progress[c].TotalChunks > 0
         THEN chunkIdx[c] + 1 ELSE chunkIdx[c]
    /\ ret[c] = "nil" => Len(progressChan[c]) = progress[c].TotalChunks

C17_Witness ==
  \E c \in Calls :
    /\ ret[c] = "cancelled" /\ pc[c] = "returned"
    /\ chunkIdx[c] = 2 /\ Len(progressChan[c]) = 2
    /\ progress[c].CurrentChunk = 3

\* C18: the progress stream advances monotonically: from one snapshot of an
\* import to the next, Processed, Inserted, Skipped, MediaUploaded and
\* ErrorCount do not decrease, CurrentChunk increases, and Total and
\* TotalChunks stay the same.
C18_ProgressMonotonic ==
  \A c \in Calls :
    \A k \in 1..(Len(progressChan[c]) - 1) :
      LET a == progressChan[c][k]
          b == progressChan[c][k + 1]
      IN  /\ a.Processed <= b.Processed
          /\ a.Inserted <= b.Inserted
          /\ a.Skipped <= b.Skipped
          /\ a.MediaUploaded <= b.MediaUploaded
          /\ a.ErrorCount <= b.ErrorCount
          /\ a.CurrentChunk < b.CurrentChunk
          /\ a.Total = b.Total
          /\ a.TotalChunks = b.TotalChunks

C18_Witness ==
  \E c \in Calls :
    /\ Len(progressChan[c]) = 3
    /\ progressChan[c][1].Inserted = 1
    /\ progressChan[c][2].Inserted = 1 /\ progressChan[c][2].ErrorCount = 1
    /\ progressChan[c][3].Inserted = 2 /\ progressChan[c][3].Processed = 3

\* C19: when at the publish point of a chunk the progress channel is full
\* and cancellation has been requested, the send is abandoned, Import
\* returns the cancellation error, and no later chunk is processed.
C19_CancelledWhenFull ==
  /\ [][\A c \in Calls :
          (PublishStep(c) /\ ctxDone[c]
           /\ Len(progressChan[c]) = ProgressChanCap)
          => (/\ pc'[c] = "returned" /\ ret'[c] = "cancelled"
              /\ progressChan' = progressChan
              /\ chunkIdx' = chunkIdx)]_vars
  /\ [][\A c \in Calls :
          ret[c] = "cancelled"
          => (/\ progress'[c] = progress[c] /\ chunkIdx'[c] = chunkIdx[c]
              /\ ret'[c] = "cancelled"
              /\ storeVars' = storeVars /\ objects' = objects)]_vars

C19_Witness ==
  \E c \in Calls :
    /\ ret[c] = "cancelled" /\ pc[c] = "returned"
    /\ Len(progressChan[c]) = ProgressChanCap
    /\ chunkIdx[c] = ProgressChanCap
    /\ progress[c].TotalChunks > ProgressChanCap

\* C20: cancellation is honoured at every chunk boundary: if cancellation
\* has been requested when Import reaches the publish point of chunk k,
\* Import returns the cancellation error there and chunk k+1 is never
\* started, whether or not the progress channel has room.
C20_CancelledAtEveryBoundary ==
  [][\A c \in Calls :
       (PublishStep(c) /\ ctxDone[c])
       => (/\ pc'[c] = "returned" /\ ret'[c] = "cancelled"
           /\ chunkIdx'[c] = chunkIdx[c])]_vars

\* C21: partial progress is retained: no step of Import deletes or rolls
\* back a row, and when Import returns the cancellation error every record
\* it inserted is in the relational store.
C21_PartialProgressRetained ==
  /\ [][/\ messages \sqsubseteq messages'
        /\ service_messages \sqsubseteq service_messages'
        /\ chats \subseteq chats'
        /\ users \subseteq users']_vars
  /\ [](\A c \in Calls :
          ret[c] = "cancelled"
          => BagCardinality(messages) + BagCardinality(service_messages)
               = progress[c].Inserted)

C21_Witness ==
  \E c \in Calls :
    /\ ret[c] = "cancelled" /\ pc[c] = "returned"
    /\ chunkIdx[c] = 1 /\ progress[c].TotalChunks = 3
    /\ progress[c].Inserted = 2
    /\ BagCardinality(messages) = 2

\* C22: Import never blocks indefinitely on the progress channel: every
\* import started by the /import handler eventually returns, whatever the
\* number of chunks and whatever the progress consumer does, and the
\* conversation lock is released.
C22_ImportEventuallyReturns ==
  \A c \in Calls :
    (pc[c] = "import")
      ~> (pc[c] \in {"returned", "done", "panicked"} /\ ~HoldsLock(c))

\* ceil(total / size) for size >= 1: the least n with n * size >= total
CeilDiv(total, size) ==
  CHOOSE n \in 0..total :
    n * size >= total /\ \A m \in 0..(n - 1) : m * size < total

\* Import of call c has read the manifest and computed the totals
TotalsComputed(c) ==
  pc[c] \in {"begin", "exists", "record", "commit"} \/ ret[c] = "nil"

\* C23: Total is the manifest's record count, TotalChunks is
\* ceil(total / chunkSize), and the chunks partition the records: record i
\* is processed as the i-th record, in chunk ceil(i / chunkSize), and a
\* chunk is committed when it holds chunkSize records or the last record;
\* on an empty store with no failures every record is inserted and none
\* skipped.
C23_ChunksPartitionTheRecords ==
  \A c \in Calls :
    /\ TotalsComputed(c)
         => /\ progress[c].Total = Len(manifest)
            /\ progress[c].TotalChunks = CeilDiv(Len(manifest), chunkSize)
    /\ pc[c] \in {"exists", "record", "commit"}
         => /\ msgIdx[c] \in 1..Len(manifest)
            /\ progress[c].CurrentChunk = CeilDiv(msgIdx[c], chunkSize)
            /\ progress[c].CurrentChunk = chunkIdx[c] + 1
            /\ progress[c].Processed =
                 IF pc[c] = "exists" THEN msgIdx[c] - 1 ELSE msgIdx[c]
    /\ pc[c] = "commit"
         => \/ msgIdx[c] = progress[c].CurrentChunk * chunkSize
            \/ /\ msgIdx[c] = Len(manifest)
               /\ progress[c].CurrentChunk = progress[c].TotalChunks
    /\ ret[c] = "nil"
         => /\ progress[c].Processed = Len(manifest)
            /\ progress[c].Inserted = Len(manifest)
            /\ progress[c].Skipped = 0
            /\ Len(progressChan[c]) = progress[c].TotalChunks

C23_Witness ==
  \E c \in Calls :
    /\ ret[c] = "nil" /\ chunkSize = 2
    /\ Len(manifest) = 4 /\ manifest[4].Type = "service"
    /\ progress[c].Total = 4 /\ progress[c].TotalChunks = 2
    /\ progress[c].Inserted = 4 /\ progress[c].Skipped = 0

\* C24: extraction fails cleanly: whenever ExtractZIP returns an error, the
\* working directory it created has been removed and no working-directory
\* path is returned.
C24_ExtractionFailsCleanly ==
  \A c \in Calls :
    (extraction[c].called /\ extraction[c].err # "none")
      => (~workDir[c] /\ extraction[c].extractedDir = "")

C24_Witness ==
  \E c \in Calls :
    /\ extraction[c].called /\ extraction[c].err = "nomanifest"
    /\ extraction[c].released = 0
    /\ ~workDir[c] /\ extraction[c].extractedDir = ""

\* C25: the release function returned by the extractor is idempotent and
\* callable on every exit path: invoked once, twice, or after a failure
\* path of ExtractZIP has already cleaned up, it leaves no working
\* directory behind and does not fail.
C25_ReleaseIdempotentOnEveryPath ==
  \A c \in Calls :
    /\ ~extraction[c].panicked
    /\ extraction[c].released >= 1 => ~workDir[c]

\* a pointer field of a record is populated: present in the manifest
Populated(field) == field # <<>>

\* the fixed table of media-kind hints
HintTable ==
  ("video_file" :> "video") @@ ("voice_message" :> "voice") @@
  ("animation" :> "animation") @@ ("sticker" :> "sticker") @@
  ("video_message" :> "video_note")

\* C26: media-type classification follows a fixed precedence: a populated
\* photo field yields photo; otherwise a recognised hint yields its mapped
\* type; otherwise a populated file field yields document; otherwise text.
C26_MediaTypePrecedence ==
  (calc.fn = "DetermineMediaType" /\ calc.done)
    => LET m == calc.arg
       IN  calc.result =
             IF Populated(m.Photo) THEN "photo"
             ELSE IF Populated(m.MediaType) /\ m.MediaType[1] \in DOMAIN HintTable
                  THEN HintTable[m.MediaType[1]]
             ELSE IF Populated(m.File) THEN "document"
             ELSE "text"

C26_Witness ==
  /\ calc.fn = "DetermineMediaType" /\ calc.done
  /\ calc.arg.Photo = <<>>
  /\ calc.arg.MediaType = <<"video_message">>
  /\ calc.arg.File = <<"files/f1.bin">>
  /\ calc.result = "video_note"

\* an ISO 8601 date-time: YYYY-MM-DDTHH:MM:SS, with or without a zone
\* designator
IsISO8601(s) == IsRFC3339(s) \/ (Len(s) = 19 /\ IsRFC3339(s \o <<"Z">>))

\* the instant an ISO 8601 date-time denotes, read in UTC when it has no
\* zone designator
UnixOfISO8601(s) ==
  IF Len(s) = 19 THEN UnixOfRFC3339(s \o <<"Z">>) ELSE UnixOfRFC3339(s)

\* C27: date resolution: when the epoch-seconds field is present and a
\* base-10 integer the result is that instant (the ISO field is ignored);
\* otherwise, when the ISO field is present and parseable, the result is
\* that instant in UTC; otherwise resolution fails.
C27_DateResolution ==
  (calc.fn = "parseMessageDate" /\ calc.done)
    => LET m == calc.arg
           r == calc.result
       IN  IF m.DateUnixtime # <<>> /\ ParseInt(m.DateUnixtime).ok
           THEN r.ok /\ r.t = ParseInt(m.DateUnixtime).v
           ELSE IF m.Date # <<>> /\ IsISO8601(m.Date)
           THEN r.ok /\ r.t = UnixOfISO8601(m.Date)
           ELSE ~r.ok

\* C28: action mapping is total and open: the invite keyword and the
\* join-by-link keyword both give the joined action, every keyword of the
\* table gives its table value, and every other keyword is returned
\* unchanged.
C28_ActionMappingOpen ==
  (calc.fn = "MapServiceAction" /\ calc.done)
    => /\ calc.arg \in {"invite_members", "join_group_by_link"}
            => calc.result = "user_joined"
       /\ calc.arg \in DOMAIN actionMap => calc.result = actionMap[calc.arg]
       /\ calc.arg \notin DOMAIN actionMap => calc.result = calc.arg

C28_Witness ==
  /\ calc.fn = "MapServiceAction" /\ calc.done
  /\ calc.arg = "phone_call" /\ calc.result = "phone_call"

\* C29: for every message the bot stored whose media was uploaded to the
\* media store, by live capture or by import, the media_sha256 column of
\* the message row holds the content-hash key of the object.
C29_MediaHashStored ==
  \A u \in uploads :
    \A row \in DOMAIN messages :
      (row.chat_id = u.chat_id /\ row.telegram_message_id = u.telegram_message_id)
        => row.media_sha256 = <<u.key>>

\* C30: imports of different conversations do not coordinate: an Import
\* for one conversation id is rejected as already running only when an
\* import of the same id is in flight on the Importer, and it never waits:
\* its lock step can always be taken, whatever imports of other ids are
\* in flight.
C30_DifferentChatsIndependent ==
  /\ [][\A c \in Calls :
          (pc[c] = "import" /\ ret'[c] = "already")
          => \E d \in Calls \ {c} :
               /\ importer[d] = importer[c]
               /\ chatID[d] = chatID[c]
               /\ Importing(d)]_vars
  /\ [](\A c \in Calls : pc[c] = "import" => ENABLED ImportAcquire(c))

C30_Witness ==
  \E c, d \in Calls :
    /\ chatID[c] # chatID[d]
    /\ importer[c] = importer[d]
    /\ Importing(c) /\ Importing(d)
    /\ pc[c] = "record" /\ pc[d] = "record"
    /\ ret[c] = "none" /\ ret[d] = "none"

\* the chunks of call c, up to chunk k, whose transaction failed to begin
\* or to commit
FailedChunks(c, k) == Cardinality({f \in hist[c].chunkFail : f[1] <= k})

\* the counters of p account for every processed record once, and for the
\* failed chunks
Accounted(c, p) ==
  /\ p.Inserted + p.Skipped <= p.Processed
  /\ p.Processed <= p.Total
  /\ p.ErrorCount >= p.Processed - p.Inserted - p.Skipped
  /\ p.ErrorCount - (p.Processed - p.Inserted - p.Skipped)
       = FailedChunks(c, p.CurrentChunk)

\* C34: in every published snapshot and when Import has returned, Inserted +
\* Skipped <= Processed <= Total and ErrorCount exceeds Processed - Inserted -
\* Skipped, the number of failed records, by exactly the number of failed
\* chunks.
C34_CounterAccounting ==
  \A c \in Calls :
    /\ \A k \in 1..Len(progressChan[c]) : Accounted(c, progressChan[c][k])
    /\ pc[c] \in {"returned", "done"} => Accounted(c, progress[c])

\* a snapshot of a chunk whose one record failed and whose commit failed
C34_Witness ==
  \E c \in Calls : \E k \in 1..Len(progressChan[c]) :
    LET p == progressChan[c][k]
    IN  /\ p.Processed - p.Inserted - p.Skipped = 1
        /\ p.ErrorCount = 2
        /\ <<p.CurrentChunk, "commit">> \in hist[c].chunkFail

\* C35: whenever Import returns nil, Processed = Total in the last snapshot:
\* every record was attempted, whatever transactions failed to begin or to
\* commit.
C35_EveryRecordAttempted ==
  \A c \in Calls :
    (pc[c] \in {"returned", "done"} /\ ret[c] = "nil" /\ Len(progressChan[c]) > 0)
      => /\ progressChan[c][Len(progressChan[c])].Processed
              = progressChan[c][Len(progressChan[c])].Total
         /\ progress[c].Processed = progress[c].Total

\* C36: when an import has returned, Inserted equals the number of message
\* and service-event rows the import added to the store, also when another
\* writer inserted a row with the same key between the existence check and
\* the insert, and also when the transaction of a chunk failed to commit.
C36_InsertedIsExact ==
  \A c \in Calls :
    pc[c] \in {"returned", "done"} => progress[c].Inserted = hist[c].added

\* the message rows of call c's conversation that carry media hash key
RowsWithHash(c, id, key) ==
  {row \in DOMAIN messages :
     /\ row.chat_id = chatID[c]
     /\ row.telegram_message_id = id
     /\ row.media_sha256 = <<key>>}

\* C37 as claimed: after an import returned, every object it Put is referenced
\* by the media hash of a persisted message, and MediaUploaded does not exceed
\* the number of message records it inserted with a media hash.
C37_NoOrphanMedia ==
  \A c \in Calls :
    pc[c] \in {"returned", "done"} =>
      /\ \A m \in hist[c].media :
           \E row \in DOMAIN messages : row.media_sha256 = <<m.key>>
      /\ progress[c].MediaUploaded
           <= Cardinality({m \in hist[c].media : m.inserted})

\* C37: after an import returned, every object it Put is in the media store,
\* and is referenced by the media hash of the row of its record unless the
\* insert of that record failed after the upload; MediaUploaded is the
\* number of records whose media was uploaded, the records inserted with a
\* media hash plus those whose insert failed after the upload.
C37_MediaOfInsertedRecordsReferenced ==
  \A c \in Calls :
    pc[c] \in {"returned", "done"} =>
      /\ \A m \in hist[c].media :
           /\ m.key \in objects
           /\ m.inserted => RowsWithHash(c, m.id, m.key) # {}
      /\ progress[c].MediaUploaded
           = Cardinality({m \in hist[c].media : m.inserted})
             + Cardinality({m \in hist[c].media : ~m.inserted})

\* an import that returned after the insert of a record failed whose media
\* had been uploaded
C37_Witness ==
  \E c \in Calls :
    /\ pc[c] \in {"returned", "done"}
    /\ \E m \in hist[c].media : ~m.inserted /\ m.key \in objects
    /\ progress[c].MediaUploaded = 1

\* call c processes a record to an error in this step
RecordFailed(c) ==
  /\ pc[c] \in {"exists", "record"}
  /\ progress'[c].ErrorCount = progress[c].ErrorCount + 1

\* C38 as claimed: when processing a record ends in an error, no
\* conversation row, participant row or media object has been written on
\* behalf of that record.
C38_FailedRecordLeavesStorageUnchanged ==
  [][\A c \in Calls :
       RecordFailed(c) =>
         /\ chats' = chats
         /\ users' = users
         /\ objects' = objects]_vars

\* C38: when processing a record ends in an error, no message row and no
\* service-event row has been written for that record; the conversation and
\* participant rows upserted and the media object uploaded before the failing
\* step remain.
C38_FailedRecordLeavesNoRow ==
  [][\A c \in Calls :
       RecordFailed(c) =>
         /\ messages' = messages
         /\ service_messages' = service_messages
         /\ chats \subseteq chats'
         /\ users \subseteq users'
         /\ objects \subseteq objects']_vars

\* a record failed on its date after its conversation row was written
C38_Witness ==
  \E c \in Calls :
    /\ "date" \in hist[c].lastFail
    /\ progress[c].ErrorCount = 1
    /\ progress[c].Processed = 1
    /\ chatID[c] \in chats
    /\ messages = EmptyBag
    /\ service_messages = EmptyBag

\* C39: Import on a manifest with zero records returns nil after publishing
\* no snapshot and writing nothing; Import configured with chunkSize <= 0
\* never returns nil with records of a non-empty manifest unprocessed, and
\* never terminates abnormally.
C39_DegenerateSizesHandled ==
  \A c \in Calls :
    /\ (Len(manifest) = 0 /\ chunkSize > 0) =>
         /\ progressChan[c] = <<>>
         /\ chats = {} /\ users = {} /\ objects = {}
         /\ messages = EmptyBag /\ service_messages = EmptyBag
         /\ pc[c] \in {"returned", "done"} =>
              ret[c] \in {"nil", "read", "parse", "none"}
    /\ chunkSize <= 0 =>
         /\ pc[c] # "panicked"
         /\ ~(/\ pc[c] \in {"returned", "done"}
              /\ ret[c] = "nil"
              /\ Len(manifest) > 0
              /\ progress[c].Processed < Len(manifest))

\* the /import command has come to its end: its loop is over, or the panic
\* of a call it made has unwound it
BatchOver == batch.state = "ended" \/ \E c \in Calls : pc[c] = "panicked"

\* C31: the ZIP files found are processed one at a time in scan order; a
\* file is deleted only after its extraction and Import both returned without
\* error; a failure on one file does not prevent the remaining files from
\* being processed; and at the end successCount + failedCount equals the
\* number of files found.
C31_BatchProcessesEveryFile ==
  /\ \A c \in Calls :
       pc[c] # "idle" =>
         /\ batch.idx >= FileOf(c) - 1
         /\ \A d \in Calls : FileOf(d) < FileOf(c) => pc[d] = "done"
  /\ \A f \in batch.deleted :
       \E c \in Calls : FileOf(c) = f /\ pc[c] = "done" /\ ret[c] = "nil"
  /\ BatchOver =>
       /\ batch.idx = batch.files
       /\ batch.successCount + batch.failedCount = batch.files

\* C32: after a successful import that published at least one snapshot, once
\* the progress channel is closed the reporter renders a final summary with
\* the counters of the last published snapshot, under every interleaving of
\* snapshot arrival, ticker ticks, channel close and cancellation.
C32_FinalSummaryRendered ==
  \A c \in Calls :
    (/\ pc[c] = "done" /\ ret[c] = "nil"
     /\ Len(progressChan[c]) >= 1
     /\ reporter[c].pc = "returned" /\ reporter[c].how # "nil")
    => reporter[c].final = <<progressChan[c][Len(progressChan[c])]>>

\* C33: when Import returns an error, so that the handler closes the channel
\* and returns, the reporter renders no final summary for that import, under
\* any interleaving.
C33_NoSummaryForFailedImport ==
  \A c \in Calls :
    ret[c] \in {"already", "read", "parse", "cancelled"}
      => reporter[c].final = <<>>

\* the reporter saw the channel closed after Import had returned an error
C33_Witness ==
  \E c \in Calls :
    /\ ret[c] \in {"read", "parse"}
    /\ reporter[c].pc = "returned"
    /\ reporter[c].how = "closed"
====
